---------------------------- MODULE Spec2Model ----------------------------
(***************************************************************************)
(* A model of jnipp (mitchdowd/jnipp), a C++ wrapper around the Java       *)
(* Native Interface.  Three state machines share this module:              *)
(*                                                                         *)
(*   SpecVm   the process-wide state of jnipp.cpp: the atomic flag isVm,    *)
(*            the JavaVM* javaVm, Vm::Vm / Vm::~Vm, init(env), and the      *)
(*            thread-local ScopedEnv behind env();                          *)
(*   SpecObj  the reference bookkeeping of jni::Object: construction,      *)
(*            copy, move, assignment, getClass and destruction against a   *)
(*            table of JNI references;                                     *)
(*   SpecCall the call path: argument marshalling, the typed bridge call,  *)
(*            handleJavaExceptions and the conversion of the result.       *)
(*                                                                         *)
(* The JNI side (reference table, pending exception, thread attachment)    *)
(* is the environment; the wrapper's steps are translated from the source. *)
(***************************************************************************)
EXTENDS Naturals, Integers, Sequences, FiniteSets, TLC

(***************************************************************************)
(* Bounds of the model.                                                    *)
(***************************************************************************)
\* Number of OS threads that use the library concurrently.
NThreads == 2

Threads == 1 .. NThreads

\* Number of C++ variables of type jni::Object the program uses.
NObjs == 2

\* Number of slots of the JVM's reference table (live references at a time).
NRefs == 2

Objs == 1 .. NObjs

Handles == 1 .. NRefs

\* Largest number of arguments of a call.
MaxArgs == 2

\* Largest number of arguments of a signature synthesis.
MaxSigArgs == 2

\* Largest number of code points of a wide string.
MaxWLen == 2

\* Largest number of arguments of a call by name.
MaxNamedArgs == 1

\* How deep toString() of an exception throws again.
MaxNest == 2

\* The null pointer / null handle.
NULL == 0

\* The one JavaVM* a process can hold (JNI allows one VM per process).
THE_VM == 1

VARIABLES
    \* ----- process-wide state of jnipp.cpp ---------------------------------
    isVm,          \* static std::atomic_bool isVm
    javaVm,        \* static JavaVM* javaVm
    \* ----- per-thread position inside Vm::Vm and init -----------------------
    pc,            \* where thread t stands
    path,          \* the library path of the running Vm::Vm: "bad" | "good"
    lib,           \* the local `lib` of Vm::Vm: NULL or an open handle
    res,           \* what the operation thread t just finished gave its caller
    \* ----- thread_local ScopedEnv of env() ----------------------------------
    env_vm,        \* ScopedEnv::_vm
    env_env,       \* ScopedEnv::_env (NULL, or the JNIEnv* of the thread)
    env_attached,  \* ScopedEnv::_attached
    \* ----- the environment: the JVM and the OS ------------------------------
    hostVm,        \* the process was started by a JVM (native code called from Java)
    vmCreated,     \* number of successful JNI_CreateJavaVM calls
    jvmAttached,   \* whether the JVM holds thread t as attached
    openLibs,      \* library handles opened with dlopen and not yet closed
    vmObjs,        \* Vm objects constructed and not yet destroyed
    \* ----- history ----------------------------------------------------------
    everDestroyed, \* some Vm object has been destroyed
    selfAttached,  \* AttachCurrentThread succeeded for t, called by ScopedEnv::init
    \* ----- jni::Object and the JVM's references ------------------------------
    objs,          \* the Object variables: alive, _handle, _class, _isGlobal
    refs,          \* the JVM's reference table: kind, referent and owner of a handle
    rel,           \* history: the DeleteGlobalRef calls of the last operation
    last,          \* history: the last operation on an Object
    \* ----- a call into managed code -----------------------------------------
    cpc,           \* where the calling thread stands
    cop,           \* the user's operation: kind, TReturn, TArgs
    pending,       \* the JVM holds a pending exception for the thread
    nest,          \* handleJavaExceptions activations that hold an exception
    trace,         \* history: JNIEnv calls of the operation, in order
    raised,        \* "" or the exception the operation throws to its caller
    thrown,        \* history: the managed method or constructor threw
    prev,          \* history: raised of the previous operation
    member,        \* history: how a by-name call resolved its method
    result,        \* what the JVM returned: "null" or "ref"
    \* ----- conversions --------------------------------------------------------
    sigArgs,       \* TArgs of a signature synthesis
    sigRet,        \* TReturn of a signature synthesis
    descriptor,    \* << >> or the method descriptor synthesized
    wstr,          \* a wide string: the sequence of its wchar_t values
    jstr,          \* toJString of wstr: the sequence of its jchar values
    back,          \* toWString of jstr
    cvt,           \* how far the conversion of wstr has come
    \* ----- getClass() of one Object shared by the threads -------------------
    gpc,           \* where thread t stands inside getClass()
    classRef,      \* the local classRef of thread t: NULL or a local reference
    returned,      \* what getClass() returned to thread t
    ncalls,        \* history: the getClass() calls thread t has begun
    cache,         \* _class of the shared Object
    shared,        \* the shared Object is alive
    made,          \* history: NewGlobalRef calls of getClass(); the n-th gives handle n
    globals,       \* the global class references that are not deleted
    overlapped     \* history: a getClass() began while another was running

vmVars == << isVm, javaVm, pc, path, lib, res, env_vm, env_env, env_attached,
             hostVm, vmCreated, jvmAttached, openLibs, vmObjs, everDestroyed,
             selfAttached >>

objVars == << objs, refs, rel, last >>

callVars == << cpc, cop, pending, nest, trace, raised, thrown, prev, member,
              result >>

\* The input and the result of a conversion, see the conversions below.
sigVars == << sigArgs, sigRet, descriptor >>

strVars == << wstr, jstr, back, cvt >>

pureVars == << sigVars, strVars >>

\* The shared Object's class cache and the threads inside getClass().
cacheVars == << gpc, classRef, returned, ncalls, cache, shared, made, globals,
               overlapped >>

vars == << vmVars, objVars, callVars, pureVars, cacheVars >>

(***************************************************************************)
(* Messages of the InitializationException the operations throw.  "ok" is  *)
(* a normal return.                                                        *)
(***************************************************************************)
ErrNoPath      == "Could not locate Java Virtual Machine"
ErrAlready     == "Java Virtual Machine already initialized"
ErrLoad        == "Could not load JVM library"
ErrCreate      == "Java Virtual Machine failed during creation"
ErrNotInit     == "JNI not initialized"
ErrAttach      == "Could not attach JNI to thread"
ErrAcquire     == "Could not acquire Java VM"

InitializationException == { ErrNoPath, ErrAlready, ErrLoad, ErrCreate,
                             ErrNotInit, ErrAttach, ErrAcquire }

\* The result record an operation leaves for its caller.
\*   op       the operation
\*   err      "ok", or the message of the exception thrown
\*   loaded   the operation called dlopen / LoadLibrary
\*   created  the operation called JNI_CreateJavaVM
\*   calls    the JavaVM / JNIEnv functions the operation called, in order
Result(op, err, loaded, created, calls) ==
    [ op |-> op, err |-> err, loaded |-> loaded, created |-> created,
      calls |-> calls ]

NoResult == Result("none", "ok", FALSE, FALSE, << >>)

\* The JVM exists in this process: started by the host, or created by Vm::Vm.
JvmExists == hostVm \/ vmCreated > 0

\* A guard that reads the flag and never writes it.
CompareExchangeStrong_noStore(cur, expected, desired) ==
    [ success |-> (cur = expected), value |-> cur ]

\* A guard that writes the flag and reports success whatever it held.
CompareExchangeStrong_exchange(cur, expected, desired) ==
    [ success |-> TRUE, value |-> desired ]

(***************************************************************************)
(* std::atomic_bool::compare_exchange_strong(expected, desired) on a flag  *)
(* whose current value is cur: one atomic step.                            *)
(***************************************************************************)
CompareExchangeStrong(cur, expected, desired) ==
    [ success |-> (cur = expected),
      value   |-> IF cur = expected THEN desired ELSE cur ]

\* A store that never reaches the flag.
AtomicStore_lost(cur, v) == cur

\* std::atomic_bool::store(v) on a flag whose current value is cur: the value
\* the flag holds afterwards.
AtomicStore(cur, v) == v

(***************************************************************************)
(* Vm::Vm(const char* path_)                                               *)
(***************************************************************************)
\* Lines 1021-1026: the path is taken or detected; an empty path throws
\* before the guard is touched.  p = "empty" is detectJvmPath() finding
\* nothing (its registry branch); "bad" a path dlopen cannot load; "good" a
\* loadable file.
VmBegin(t, p) ==
    /\ UNCHANGED << objVars, callVars, pureVars, cacheVars >>
    /\ pc[t] = "idle"
    /\ IF p = "empty"
         THEN /\ pc' = [pc EXCEPT ![t] = "ret"]
              /\ res' = [res EXCEPT ![t] = Result("Vm", ErrNoPath, FALSE, FALSE, << >>)]
              /\ UNCHANGED path
         ELSE /\ pc' = [pc EXCEPT ![t] = "cas"]
              /\ path' = [path EXCEPT ![t] = p]
              /\ res' = [res EXCEPT ![t] = Result("Vm", "ok", FALSE, FALSE, << >>)]
    /\ UNCHANGED << isVm, javaVm, lib, env_vm, env_env, env_attached, hostVm,
                    vmCreated, jvmAttached, openLibs, vmObjs, everDestroyed,
                    selfAttached >>

\* Lines 1027-1028: the atomic guard.
VmGuard(t) ==
    /\ UNCHANGED << objVars, callVars, pureVars, cacheVars >>
    /\ pc[t] = "cas"
    /\ LET r == CompareExchangeStrong(isVm, FALSE, TRUE) IN
         IF r.success
           THEN /\ isVm' = r.value
                /\ pc' = [pc EXCEPT ![t] = "load"]
                /\ UNCHANGED << res, path >>
           ELSE /\ isVm' = r.value
                /\ pc' = [pc EXCEPT ![t] = "ret"]
                /\ res' = [res EXCEPT ![t].err = ErrAlready]
                /\ path' = [path EXCEPT ![t] = "none"]
    /\ UNCHANGED << javaVm, lib, env_vm, env_env, env_attached, hostVm,
                    vmCreated, jvmAttached, openLibs, vmObjs, everDestroyed,
                    selfAttached >>

\* dlopen(path) / LoadLibraryA(path): a handle, or NULL for a path that
\* cannot be loaded.
DlOpen(p) == IF p = "good" THEN 1 ELSE NULL

\* Lines 1030 and 1069-1075 (1038-1056 on Windows): with a VM handle already
\* registered the constructor is done; otherwise the library is loaded, and
\* a failed load resets the flag and throws.
VmLoad(t) ==
    /\ UNCHANGED << objVars, callVars, pureVars, cacheVars >>
    /\ pc[t] = "load"
    /\ IF javaVm # NULL
         THEN /\ pc' = [pc EXCEPT ![t] = "ret"]
              /\ vmObjs' = vmObjs + 1
              /\ path' = [path EXCEPT ![t] = "none"]
              /\ UNCHANGED << isVm, lib, res, openLibs >>
         ELSE LET h == DlOpen(path[t]) IN
              IF h = NULL
                THEN /\ isVm' = AtomicStore(isVm, FALSE)
                     /\ pc' = [pc EXCEPT ![t] = "ret"]
                     /\ res' = [res EXCEPT ![t].err = ErrLoad, ![t].loaded = TRUE]
                     /\ path' = [path EXCEPT ![t] = "none"]
                     /\ UNCHANGED << lib, openLibs, vmObjs >>
                ELSE /\ lib' = [lib EXCEPT ![t] = h]
                     /\ openLibs' = openLibs + 1
                     /\ pc' = [pc EXCEPT ![t] = "create"]
                     /\ res' = [res EXCEPT ![t].loaded = TRUE]
                     /\ UNCHANGED << isVm, path, vmObjs >>
    /\ UNCHANGED << javaVm, env_vm, env_env, env_attached, hostVm, vmCreated,
                    jvmAttached, everDestroyed, selfAttached >>

\* Lines 1077-1084 (1058-1065): dlsym, then JNI_CreateJavaVM.  symbol is
\* whether the library exports JNI_CreateJavaVM; created whether the call
\* returns 0.  JNI creates at most one VM in a process, and the creating
\* thread becomes its attached main thread.  A failure resets the flag
\* first (line 1081) and closes the library afterwards (line 1082).
VmCreate(t, symbol, created) ==
    /\ UNCHANGED << objVars, callVars, pureVars, cacheVars >>
    /\ pc[t] = "create"
    /\ created => ~JvmExists
    /\ IF symbol /\ created
         THEN /\ javaVm' = THE_VM
              /\ vmCreated' = vmCreated + 1
              /\ jvmAttached' = [jvmAttached EXCEPT ![t] = TRUE]
              /\ vmObjs' = vmObjs + 1
              /\ pc' = [pc EXCEPT ![t] = "ret"]
              /\ res' = [res EXCEPT ![t].created = TRUE]
              /\ lib' = [lib EXCEPT ![t] = NULL]
              /\ path' = [path EXCEPT ![t] = "none"]
              /\ UNCHANGED isVm
         ELSE /\ isVm' = AtomicStore(isVm, FALSE)
              /\ pc' = [pc EXCEPT ![t] = "unload"]
              /\ res' = [res EXCEPT ![t].err = ErrCreate, ![t].created = symbol]
              /\ UNCHANGED << javaVm, vmCreated, jvmAttached, vmObjs, lib, path >>
    /\ UNCHANGED << env_vm, env_env, env_attached, hostVm, openLibs,
                    everDestroyed, selfAttached >>

\* Line 1082-1083 (1063-1064): dlclose(lib), then the throw.
VmUnload(t) ==
    /\ UNCHANGED << objVars, callVars, pureVars, cacheVars >>
    /\ pc[t] = "unload"
    /\ openLibs' = openLibs - 1
    /\ lib' = [lib EXCEPT ![t] = NULL]
    /\ path' = [path EXCEPT ![t] = "none"]
    /\ pc' = [pc EXCEPT ![t] = "ret"]
    /\ UNCHANGED << isVm, javaVm, res, env_vm, env_env, env_attached, hostVm,
                    vmCreated, jvmAttached, vmObjs, everDestroyed, selfAttached >>

\* A destructor that unloads the JVM with DestroyJavaVM and forgets it.
VmDestroy_teardown(t) ==
    /\ UNCHANGED << objVars, callVars, pureVars, cacheVars >>
    /\ pc[t] = "idle"
    /\ vmObjs > 0
    /\ isVm' = AtomicStore(isVm, FALSE)
    /\ javaVm' = NULL
    /\ jvmAttached' = [u \in Threads |-> FALSE]
    /\ vmObjs' = vmObjs - 1
    /\ everDestroyed' = TRUE
    /\ UNCHANGED << pc, path, lib, res, env_vm, env_env, env_attached,
                    hostVm, vmCreated, openLibs, selfAttached >>

\* Lines 1090-1098: Vm::~Vm only stores false in the flag.
VmDestroy(t) ==
    /\ UNCHANGED << objVars, callVars, pureVars, cacheVars >>
    /\ pc[t] = "idle"
    /\ vmObjs > 0
    /\ isVm' = AtomicStore(isVm, FALSE)
    /\ vmObjs' = vmObjs - 1
    /\ everDestroyed' = TRUE
    /\ UNCHANGED << javaVm, pc, path, lib, res, env_vm, env_env, env_attached,
                    hostVm, vmCreated, jvmAttached, openLibs, selfAttached >>

\* The caller takes the result of the operation and goes on.
Return(t) ==
    /\ UNCHANGED << objVars, callVars, pureVars, cacheVars >>
    /\ pc[t] = "ret"
    /\ pc' = [pc EXCEPT ![t] = "idle"]
    /\ res' = [res EXCEPT ![t] = NoResult]
    /\ UNCHANGED << isVm, javaVm, path, lib, env_vm, env_env, env_attached,
                    hostVm, vmCreated, jvmAttached, openLibs, vmObjs,
                    everDestroyed, selfAttached >>

(***************************************************************************)
(* init(JNIEnv* env): called from a native function, on a thread the JVM   *)
(* runs (it owns a JNIEnv).                                                *)
(***************************************************************************)
\* Lines 219-221: the same atomic guard; losing it returns normally.
InitGuard(t) ==
    /\ UNCHANGED << objVars, callVars, pureVars, cacheVars >>
    /\ pc[t] = "idle"
    /\ jvmAttached[t]
    /\ LET r == CompareExchangeStrong(isVm, FALSE, TRUE) IN
         /\ isVm' = r.value
         /\ pc' = [pc EXCEPT ![t] = IF r.success THEN "acquire" ELSE "ret"]
    /\ res' = [res EXCEPT ![t] = Result("init", "ok", FALSE, FALSE, << >>)]
    /\ UNCHANGED << javaVm, path, lib, env_vm, env_env, env_attached, hostVm,
                    vmCreated, jvmAttached, openLibs, vmObjs, everDestroyed,
                    selfAttached >>

\* Lines 223-224: GetJavaVM is asked only while javaVm is null; acquired is
\* whether it returns 0.  The throw leaves the flag as the guard set it.
InitAcquire(t, acquired) ==
    /\ UNCHANGED << objVars, callVars, pureVars, cacheVars >>
    /\ pc[t] = "acquire"
    /\ pc' = [pc EXCEPT ![t] = "ret"]
    /\ IF javaVm = NULL
         THEN /\ javaVm' = IF acquired THEN THE_VM ELSE NULL
              /\ res' = [res EXCEPT ![t].calls = << "GetJavaVM" >>,
                                    ![t].err = IF acquired THEN "ok" ELSE ErrAcquire]
         ELSE /\ acquired
              /\ UNCHANGED << javaVm, res >>
    /\ UNCHANGED << isVm, path, lib, env_vm, env_env, env_attached, hostVm,
                    vmCreated, jvmAttached, openLibs, vmObjs, everDestroyed,
                    selfAttached >>

(***************************************************************************)
(* The thread-local ScopedEnv and env().                                   *)
(***************************************************************************)
\* A ScopedEnv::init that keeps what AttachCurrentThread was given to fill
\* in although the attach failed.
ScopedEnv_init_keepsOnFailure(e, vm, jenv, attachedInJvm, attachOk) ==
    IF e.env # NULL
      THEN [ e |-> e, err |-> "ok", calls |-> << >> ]
    ELSE IF vm = NULL
      THEN [ e |-> e, err |-> ErrNotInit, calls |-> << >> ]
    ELSE IF attachedInJvm
      THEN [ e |-> [ vm |-> vm, env |-> jenv, attached |-> e.attached ],
             err |-> "ok", calls |-> << "GetEnv" >> ]
    ELSE [ e |-> [ vm |-> vm, env |-> jenv, attached |-> TRUE ],
           err |-> IF attachOk THEN "ok" ELSE ErrAttach,
           calls |-> << "GetEnv", "AttachCurrentThread" >> ]

\* ScopedEnv::init(JavaVM* vm), lines 52-73, on the ScopedEnv e of a thread
\* whose JNIEnv is jenv.  attachedInJvm is what GetEnv finds; attachOk is
\* whether AttachCurrentThread returns 0.  The result is the ScopedEnv after
\* the call, the exception thrown and the JavaVM functions called.
ScopedEnv_init(e, vm, jenv, attachedInJvm, attachOk) ==
    IF e.env # NULL
      THEN [ e |-> e, err |-> "ok", calls |-> << >> ]
    ELSE IF vm = NULL
      THEN [ e |-> e, err |-> ErrNotInit, calls |-> << >> ]
    ELSE IF attachedInJvm
      THEN [ e |-> [ vm |-> vm, env |-> jenv, attached |-> e.attached ],
             err |-> "ok", calls |-> << "GetEnv" >> ]
    ELSE IF ~attachOk
      THEN [ e |-> e, err |-> ErrAttach,
             calls |-> << "GetEnv", "AttachCurrentThread" >> ]
    ELSE [ e |-> [ vm |-> vm, env |-> jenv, attached |-> TRUE ],
           err |-> "ok", calls |-> << "GetEnv", "AttachCurrentThread" >> ]

\* A destructor that detaches every thread that holds a VM.
ScopedEnv_dtor_always(e) == e.vm # NULL

\* ScopedEnv::~ScopedEnv, lines 46-50: whether DetachCurrentThread is called.
ScopedEnv_dtor(e) == e.vm # NULL /\ e.attached

\* The ScopedEnv of thread t.
ScopedEnvOf(t) == [ vm |-> env_vm[t], env |-> env_env[t], attached |-> env_attached[t] ]

\* env(), lines 134-142: the thread's ScopedEnv is initialised with javaVm
\* when it holds no JNIEnv yet.  The JNIEnv of thread t is t.
Env(t, attachOk) ==
    /\ UNCHANGED << objVars, callVars, pureVars, cacheVars >>
    /\ pc[t] = "idle"
    /\ LET r == IF env_env[t] = NULL
                  THEN ScopedEnv_init(ScopedEnvOf(t), javaVm, t, jvmAttached[t], attachOk)
                  ELSE [ e |-> ScopedEnvOf(t), err |-> "ok", calls |-> << >> ]
           attachedNow == r.err = "ok" /\ Len(r.calls) = 2
       IN /\ env_vm' = [env_vm EXCEPT ![t] = r.e.vm]
          /\ env_env' = [env_env EXCEPT ![t] = r.e.env]
          /\ env_attached' = [env_attached EXCEPT ![t] = r.e.attached]
          /\ res' = [res EXCEPT ![t] = Result("env", r.err, FALSE, FALSE, r.calls)]
          /\ jvmAttached' = [jvmAttached EXCEPT ![t] = @ \/ attachedNow]
          /\ selfAttached' = [selfAttached EXCEPT ![t] = @ \/ attachedNow]
    /\ pc' = [pc EXCEPT ![t] = "ret"]
    /\ UNCHANGED << isVm, javaVm, path, lib, hostVm, vmCreated, openLibs,
                    vmObjs, everDestroyed >>

\* The thread ends: its thread_local ScopedEnv is destroyed.
ThreadExit(t) ==
    /\ UNCHANGED << objVars, callVars, pureVars, cacheVars >>
    /\ pc[t] = "idle"
    /\ LET detach == ScopedEnv_dtor(ScopedEnvOf(t)) IN
         /\ res' = [res EXCEPT ![t] = Result("exit", "ok", FALSE, FALSE,
                        IF detach THEN << "DetachCurrentThread" >> ELSE << >>)]
         /\ jvmAttached' = [jvmAttached EXCEPT ![t] = @ /\ ~detach]
    /\ pc' = [pc EXCEPT ![t] = "exited"]
    /\ env_vm' = [env_vm EXCEPT ![t] = NULL]
    /\ env_env' = [env_env EXCEPT ![t] = NULL]
    /\ env_attached' = [env_attached EXCEPT ![t] = FALSE]
    /\ UNCHANGED << isVm, javaVm, path, lib, hostVm, vmCreated, openLibs,
                    vmObjs, everDestroyed, selfAttached >>

\* A new thread starts; one the JVM started (a Java thread that calls native
\* code) arrives attached.
ThreadStart(t, arrivesAttached) ==
    /\ UNCHANGED << objVars, callVars, pureVars, cacheVars >>
    /\ pc[t] = "exited"
    /\ arrivesAttached => JvmExists
    /\ pc' = [pc EXCEPT ![t] = "idle"]
    /\ res' = [res EXCEPT ![t] = NoResult]
    /\ jvmAttached' = [jvmAttached EXCEPT ![t] = arrivesAttached]
    /\ selfAttached' = [selfAttached EXCEPT ![t] = FALSE]
    /\ UNCHANGED << isVm, javaVm, path, lib, env_vm, env_env, env_attached,
                    hostVm, vmCreated, openLibs, vmObjs, everDestroyed >>

(***************************************************************************)
(* jni::Object against the JVM's reference table.                          *)
(*                                                                         *)
(* A handle is NULL or a slot of the table.  A live slot is a local or a   *)
(* global reference to a managed object; a free slot is a handle that has  *)
(* been deleted (or never given out), and the JVM may give it out again.   *)
(* The managed objects are an instance, its class and java.lang.Class.     *)
(***************************************************************************)
Managed == { "obj", "Obj.class", "Class.class" }

\* The class object GetObjectClass returns for managed object m.
ClassOf(m) == IF m = "obj" THEN "Obj.class" ELSE "Class.class"

FreeSlot == [ kind |-> "free", to |-> "null", owner |-> 0 ]

\* An Object variable that is not constructed (or destroyed).
Dead == [ alive |-> FALSE, handle |-> NULL, cls |-> NULL, isGlobal |-> FALSE ]

\* No Object operation has run, or the last step was the JVM's.
NoOp == "none"

\* What a handle denotes in table T.  A deleted handle
\* is dangling: using it is undefined, and the JVM may take it for any
\* object or for null.
Deref(T, h) ==
    IF h = NULL THEN {"null"}
    ELSE IF T[h].kind # "free" THEN {T[h].to}
    ELSE {"null"} \cup Managed

\* The handle is a live reference.
Live(T, h) == h # NULL /\ T[h].kind # "free"

\* Object::isNull(), lines 325-328: the values it can return for handle h.
IsNull(T, h) ==
    IF h = NULL THEN {TRUE} ELSE { m = "null" : m \in Deref(T, h) }

\* JNIEnv::IsSameObject(h1, h2), as Object::operator== calls it, lines
\* 295-298: the values it can return.
IsSameObject(T, h1, h2) ==
    { m1 = m2 : m1 \in Deref(T, h1), m2 \in Deref(T, h2) }

\* JNIEnv::DeleteGlobalRef(h): the table afterwards.  Deleting NULL does
\* nothing; deleting what is not a live global reference leaves the table
\* (the call itself is recorded by Released).
DeleteGlobalRef(T, h) ==
    IF h # NULL /\ T[h].kind = "global" THEN [T EXCEPT ![h] = FreeSlot] ELSE T

\* JNIEnv::DeleteLocalRef(h): the table afterwards.
DeleteLocalRef(T, h) ==
    IF h # NULL /\ T[h].kind = "local" THEN [T EXCEPT ![h] = FreeSlot] ELSE T

\* The record of a DeleteGlobalRef(h) call made by Object o on table T:
\* whether h was a live global reference and whether o owned it.
Released(T, o, h) ==
    IF h = NULL THEN << >>
    ELSE << [ h |-> h, live |-> (T[h].kind = "global"),
              own |-> (T[h].owner = o) ] >>

\* JNIEnv::NewGlobalRef of managed object m for Object o, given out in slot g.
NewGlobalRef(T, o, g, m) ==
    [T EXCEPT ![g] = [ kind |-> "global", to |-> m, owner |-> o ]]

\* The slots NewGlobalRef can give out for managed object m: none is needed
\* for null, where it returns NULL.
Slots(T, m) == IF m = "null" THEN {NULL} ELSE { g \in Handles : T[g].kind = "free" }

\* A move that leaves the source as it was.
MovedFrom_kept(other) == other

\* Lines 244-246 and 317-319: the source of a move afterwards.
MovedFrom(other) ==
    [ other EXCEPT !.handle = NULL, !.cls = NULL, !.isGlobal = FALSE ]

\* Lines 275 and 302: the test that makes an assignment do nothing.
SameForAssign(o, src) == objs[o].handle = objs[src].handle

\* Lines 286-287: when the source is null, _handle is not assigned.
HandleAfterNullAssign(h) == h

\* A constructor that leaves _handle as it finds the memory.
Object_default_uninitialized ==
    [ alive |-> TRUE, handle |-> 1, cls |-> NULL, isGlobal |-> FALSE ]

\* The member initialisers of Object::Object(), line 232.
Object_default ==
    [ alive |-> TRUE, handle |-> NULL, cls |-> NULL, isGlobal |-> FALSE ]

\* Object::Object(), lines 232-234.
Construct(o) ==
    /\ ~objs[o].alive
    /\ objs' = [objs EXCEPT ![o] = Object_default]
    /\ rel' = << >>
    /\ last' = "ctor"
    /\ UNCHANGED refs
    /\ UNCHANGED << vmVars, callVars, pureVars, cacheVars >>

\* Object::Object(jobject ref, int scopeFlags), lines 249-260.  ref is NULL
\* or a live reference; DeleteLocalInput is passed for local references.
\* Temporary = 1, DeleteLocalInput = 2.
ConstructRef(o, ref, scopeFlags) ==
    /\ ~objs[o].alive
    /\ ref = NULL \/ Live(refs, ref)
    /\ scopeFlags = 2 => (IF ref = NULL THEN TRUE ELSE refs[ref].kind = "local")
    /\ LET isGlobal == scopeFlags \in {0, 2}
           m == CHOOSE x \in Deref(refs, ref) : TRUE
       IN IF ~isGlobal
            THEN /\ objs' = [objs EXCEPT ![o] = [ alive |-> TRUE, handle |-> ref,
                                                   cls |-> NULL, isGlobal |-> FALSE ]]
                 /\ UNCHANGED refs
            ELSE \E g \in Slots(refs, m) :
                   LET T1 == IF g = NULL THEN refs ELSE NewGlobalRef(refs, o, g, m)
                       T2 == IF scopeFlags = 2 THEN DeleteLocalRef(T1, ref) ELSE T1
                   IN /\ objs' = [objs EXCEPT ![o] = [ alive |-> TRUE, handle |-> g,
                                                        cls |-> NULL, isGlobal |-> TRUE ]]
                      /\ refs' = T2
    /\ rel' = << >>
    /\ last' = IF scopeFlags \in {1, 3} THEN "temp" ELSE "ref"
    /\ UNCHANGED << vmVars, callVars, pureVars, cacheVars >>

\* Object::Object(const Object& other), lines 236-240.  isNull() is called
\* twice: n1 initialises _isGlobal, n2 decides the NewGlobalRef.
CopyConstruct(o, src) ==
    /\ ~objs[o].alive /\ objs[src].alive
    /\ \E n1 \in IsNull(refs, objs[src].handle),
          n2 \in IsNull(refs, objs[src].handle),
          m \in Deref(refs, objs[src].handle) :
         \E g \in IF n2 THEN {NULL} ELSE Slots(refs, m) :
           /\ objs' = [objs EXCEPT ![o] = [ alive |-> TRUE, handle |-> g,
                                             cls |-> NULL, isGlobal |-> ~n1 ]]
           /\ refs' = IF g = NULL THEN refs ELSE NewGlobalRef(refs, o, g, m)
    /\ rel' = << >>
    /\ last' = "copyCtor"
    /\ UNCHANGED << vmVars, callVars, pureVars, cacheVars >>

\* Object::Object(Object&& other), lines 242-247.
MoveConstruct(o, src) ==
    /\ ~objs[o].alive /\ objs[src].alive
    /\ objs' = [objs EXCEPT ![o] = objs[src], ![src] = MovedFrom(objs[src])]
    /\ refs' = [ h \in Handles |->
                   IF refs[h].owner = src /\ objs'[src].handle # h /\ objs'[src].cls # h
                     THEN [refs[h] EXCEPT !.owner = o] ELSE refs[h] ]
    /\ rel' = << >>
    /\ last' = "moveCtor"
    /\ UNCHANGED << vmVars, callVars, pureVars, cacheVars >>

\* Object::~Object(), lines 262-271.  A reference the Object created and
\* does not delete here is leaked: nobody owns it afterwards.
Destroy(o) ==
    /\ objs[o].alive
    /\ LET h  == IF objs[o].isGlobal THEN objs[o].handle ELSE NULL
           T1 == DeleteGlobalRef(refs, h)
           T2 == DeleteGlobalRef(T1, objs[o].cls)
       IN /\ refs' = [ x \in Handles |->
                         IF T2[x].owner = o THEN [T2[x] EXCEPT !.owner = 0] ELSE T2[x] ]
          /\ rel' = Released(refs, o, h) \o Released(T1, o, objs[o].cls)
    /\ objs' = [objs EXCEPT ![o] = Dead]
    /\ last' = "dtor"
    /\ UNCHANGED << vmVars, callVars, pureVars, cacheVars >>

\* Object::operator=(const Object& other), lines 273-293.  other.isNull()
\* is evaluated after the old references are deleted.
CopyAssign(o, src) ==
    /\ objs[o].alive /\ objs[src].alive
    /\ IF SameForAssign(o, src)
         THEN /\ UNCHANGED << objs, refs >>
              /\ rel' = << >>
         ELSE LET h  == IF objs[o].isGlobal THEN objs[o].handle ELSE NULL
                  T1 == DeleteGlobalRef(refs, h)
                  T2 == DeleteGlobalRef(T1, objs[o].cls)
              IN \E n \in IsNull(T2, objs[src].handle),
                    m \in Deref(T2, objs[src].handle) :
                   \E g \in IF n THEN {NULL} ELSE Slots(T2, m) :
                     /\ objs' = [objs EXCEPT ![o] =
                                   [ alive |-> TRUE,
                                     handle |-> IF n THEN HandleAfterNullAssign(objs[o].handle)
                                                     ELSE g,
                                     cls |-> NULL, isGlobal |-> ~n ]]
                     /\ refs' = IF g = NULL THEN T2 ELSE NewGlobalRef(T2, o, g, m)
                     /\ rel' = Released(refs, o, h) \o Released(T1, o, objs[o].cls)
    /\ last' = "copyAssign"
    /\ UNCHANGED << vmVars, callVars, pureVars, cacheVars >>

\* Object::operator=(Object&& other), lines 300-323.
MoveAssign(o, src) ==
    /\ objs[o].alive /\ objs[src].alive
    /\ IF SameForAssign(o, src)
         THEN /\ UNCHANGED << objs, refs >>
              /\ rel' = << >>
         ELSE LET h  == IF objs[o].isGlobal THEN objs[o].handle ELSE NULL
                  T1 == DeleteGlobalRef(refs, h)
                  T2 == DeleteGlobalRef(T1, objs[o].cls)
              IN /\ objs' = [objs EXCEPT
                               ![o] = [ alive |-> TRUE, handle |-> objs[src].handle,
                                        cls |-> objs[src].cls,
                                        isGlobal |-> objs[src].isGlobal ],
                               ![src] = MovedFrom(objs[src])]
                 /\ refs' = [ x \in Handles |->
                                IF T2[x].owner = src /\ objs'[src].handle # x
                                                     /\ objs'[src].cls # x
                                  THEN [T2[x] EXCEPT !.owner = o] ELSE T2[x] ]
                 /\ rel' = Released(refs, o, h) \o Released(T1, o, objs[o].cls)
    /\ last' = "moveAssign"
    /\ UNCHANGED << vmVars, callVars, pureVars, cacheVars >>

\* Object::getClass(), lines 546-558: GetObjectClass, NewGlobalRef of the
\* class, DeleteLocalRef of the local class reference.  GetObjectClass needs
\* a handle that is not null.
GetClass(o) ==
    /\ objs[o].alive
    /\ objs[o].handle # NULL
    /\ IF objs[o].cls # NULL
         THEN UNCHANGED << objs, refs >>
         ELSE \E m \in Deref(refs, objs[o].handle) \ {"null"} :
                \E g \in Slots(refs, ClassOf(m)) :
                  /\ objs' = [objs EXCEPT ![o].cls = g]
                  /\ refs' = NewGlobalRef(refs, o, g, ClassOf(m))
    /\ rel' = << >>
    /\ last' = "getClass"
    /\ UNCHANGED << vmVars, callVars, pureVars, cacheVars >>

\* The JVM hands native code a local reference to the instance (a jobject
\* parameter, the result of NewObject or of a call).
BridgeLocal(g) ==
    /\ refs[g].kind = "free"
    /\ refs' = [refs EXCEPT ![g] = [ kind |-> "local", to |-> "obj", owner |-> 0 ]]
    /\ rel' = << >>
    /\ last' = NoOp
    /\ UNCHANGED objs
    /\ UNCHANGED << vmVars, callVars, pureVars, cacheVars >>

\* A local reference ends: DeleteLocalRef by its user, or the return of the
\* native frame.
EndLocal(g) ==
    /\ refs[g].kind = "local"
    /\ refs' = DeleteLocalRef(refs, g)
    /\ rel' = << >>
    /\ last' = NoOp
    /\ UNCHANGED objs
    /\ UNCHANGED << vmVars, callVars, pureVars, cacheVars >>

\* A getClass that stores the class reference as the handle too.
WithClass_asHandle(target, g) == [ target EXCEPT !.cls = g, !.handle = g ]

\* Object::getClass, lines 548-557, on the Object itself: the class reference
\* g is cached in the mutable _class; nothing else of the Object changes.
WithClass(target, g) == [ target EXCEPT !.cls = g ]

\* An operation on Object o that names its member: call<R>(name, ...),
\* get<T>(name) and set(name, value), jnipp.h lines 255-343.  The member is
\* resolved by Object::getMethod or Object::getField, jnipp.cpp lines 560-573,
\* which call getClass first.  found is whether GetMethodID or GetFieldID
\* finds the member, throws whether the managed method then throws.  The
\* operation ends with NameResolutionException, with InvocationException or
\* normally.  The target is not null.
ByName(o, found, throws) ==
    /\ objs[o].alive
    /\ Live(refs, objs[o].handle)
    /\ throws => found
    /\ IF objs[o].cls # NULL
         THEN UNCHANGED << objs, refs >>
         ELSE \E g \in Slots(refs, ClassOf(refs[objs[o].handle].to)) :
                /\ objs' = [objs EXCEPT ![o] = WithClass(objs[o], g)]
                /\ refs' = NewGlobalRef(refs, o, g, ClassOf(refs[objs[o].handle].to))
    /\ rel' = << >>
    /\ last' = IF ~found THEN "NameResolutionException"
               ELSE IF throws THEN "InvocationException" ELSE "called"
    /\ UNCHANGED << vmVars, callVars, pureVars, cacheVars >>

\* An operation on Object o by member handle: call<R>(method, ...),
\* get<T>(field), set(field, value) and, on a Class, newInstance; jnipp.cpp
\* lines 330-544 and 579-595.  None of them assigns a member of the target.
ByHandle(o, throws) ==
    /\ objs[o].alive
    /\ Live(refs, objs[o].handle)
    /\ rel' = << >>
    /\ last' = IF throws THEN "InvocationException" ELSE "called"
    /\ UNCHANGED << objs, refs >>
    /\ UNCHANGED << vmVars, callVars, pureVars, cacheVars >>

NextObj ==
    \/ \E o \in Objs : Construct(o)
    \/ \E o \in Objs, ref \in {NULL} \cup Handles, scopeFlags \in 0 .. 3 :
           ConstructRef(o, ref, scopeFlags)
    \/ \E o, src \in Objs : CopyConstruct(o, src)
    \/ \E o, src \in Objs : MoveConstruct(o, src)
    \/ \E o \in Objs : Destroy(o)
    \/ \E o, src \in Objs : CopyAssign(o, src)
    \/ \E o, src \in Objs : MoveAssign(o, src)
    \/ \E o \in Objs : GetClass(o)
    \/ \E o \in Objs, found, throws \in BOOLEAN : ByName(o, found, throws)
    \/ \E o \in Objs, throws \in BOOLEAN : ByHandle(o, throws)
    \/ \E g \in Handles : BridgeLocal(g)
    \/ \E g \in Handles : EndLocal(g)

(***************************************************************************)
(* Calls into managed code and the exception bridge.                       *)
(*                                                                         *)
(* One thread runs one operation at a time: a call of a managed method by  *)
(* its method_t handle (Object::call, Class::call for static methods,      *)
(* Class::call on an Object for exact dispatch) or a constructor call      *)
(* (Class::newInstance).  trace lists the JNIEnv functions the operation   *)
(* has called, in order.  The thread's JNIEnv is cached by env() before    *)
(* the first of them, so env() calls nothing of the JVM in between.        *)
(***************************************************************************)
CallKinds == { "call", "callStatic", "callExact", "newInstance" }

\* TReturn of the call: newInstance returns an Object.
Rets == { "void", "int", "std::string", "Object" }

\* TArgs of the call.  "int" stands for every type whose valueArg stores the
\* value or the handle it is given: the primitive types, jobject and Object.
\* "const char*" stands for const wchar_t* too and "char[N]", the type of a
\* string literal, for wchar_t[N]: they differ in NewString for NewStringUTF.
ArgKinds == { "int", "std::string", "const char*", "char[N]" }

\* All argument lists of at most MaxArgs arguments.
ArgLists == UNION { [1 .. n -> ArgKinds] : n \in 0 .. MaxArgs }

\* A call of a JNIEnv function: its name and what it is applied to or gives.
B(fn, what) == [ fn |-> fn, what |-> what ]

NoCall == [ kind |-> "none", ret |-> "void", args |-> << >> ]

\* No method was resolved by name.
NoMember == [ form |-> "none", given |-> << >>, declared |-> "none",
              fn |-> "none", name |-> << >>, signature |-> << >>,
              message |-> << >> ]

\* valueArg, jnipp.cpp lines 1110-1119, 1144-1152 and 1165-1187: the JNIEnv
\* calls that convert one argument.  A character array converts as a
\* const char*.
valueArg(a) ==
    IF a \in { "std::string", "const char*", "char[N]" }
      THEN << B("NewStringUTF", "arg") >>
      ELSE << >>

\* cleanupArg, jnipp.h lines 122-126 and jnipp.cpp lines 1149-1163: the
\* JNIEnv calls that release one converted argument.  Only the listed
\* specialisations delete; every other type has the empty generic one.
cleanupArg(a) ==
    IF a \in { "std::string", "const char*" }
      THEN << B("DeleteLocalRef", "arg") >>
      ELSE << >>

RECURSIVE args(_)
\* internal::args, jnipp.h lines 114-120.
args(as) ==
    IF as = << >> THEN << >> ELSE valueArg(Head(as)) \o args(Tail(as))

RECURSIVE cleanupArgs(_)
\* internal::cleanupArgs, jnipp.h lines 128-135.
cleanupArgs(as) ==
    IF as = << >> THEN << >> ELSE cleanupArg(Head(as)) \o cleanupArgs(Tail(as))

\* The JNIEnv function that makes the call, for each callMethod,
\* callStaticMethod, callExactMethod and newObject.
CallFunction(kind, ret) ==
    CASE kind = "call"        -> B("CallMethodA", ret)
      [] kind = "callStatic"  -> B("CallStaticMethodA", ret)
      [] kind = "callExact"   -> B("CallNonvirtualMethodA", ret)
      [] kind = "newInstance" -> B("NewObjectA", ret)

\* toString(jobject), jnipp.cpp lines 170-187.
toString(handle) ==
    IF handle # "null"
      THEN << B("GetStringUTFChars", "result"), B("GetStringUTFLength", "result"),
              B("ReleaseStringUTFChars", "result"), B("DeleteLocalRef", "result") >>
      ELSE << >>

\* What callMethod does with the value the JVM returned, after
\* handleJavaExceptions: lines 392-414.
Convert(ret, handle) ==
    CASE ret = "std::string" -> toString(handle)
      [] ret = "Object"      -> << B("NewGlobalRef", "result"),
                                   B("DeleteLocalRef", "result") >>
      [] OTHER               -> << >>

\* JNIEnv::ExceptionOccurred: a local reference to the pending exception, or
\* NULL.
ExceptionOccurred(p) == IF p THEN "exception" ELSE "null"

\* A test that never sees an exception.
IsException_never(exception) == FALSE

\* Line 160: if (exception != NULL).
IsException(exception) == exception # "null"

\* Describing the exception first.
OnException_describe == "describe"

\* Lines 162-163: with an exception in hand, the next statement that calls
\* the JVM is env->ExceptionClear().
OnException == "clear"

\* JNIEnv::ExceptionClear: the pending flag afterwards.
ExceptionClear(p) == FALSE

\* A user operation starts: the call<TReturn>(method, args...) and
\* newInstance(constructor, args...) templates construct the ArgArray, jnipp.h
\* lines 273-277, 416-420, 544-548 and 612-616.  call(method) without
\* arguments passes no array.
Begin(kind, ret, as) ==
    /\ cpc = "idle"
    /\ kind = "newInstance" => ret = "Object"
    /\ cop' = [ kind |-> kind, ret |-> ret, args |-> as ]
    /\ trace' = args(as)
    /\ raised' = ""
    /\ thrown' = FALSE
    /\ result' = "null"
    /\ member' = NoMember
    /\ cpc' = "invoke"
    /\ UNCHANGED << pending, nest, prev >>
    /\ UNCHANGED << vmVars, objVars, pureVars, cacheVars >>

\* The Call...MethodA / NewObjectA line of callMethod, callStaticMethod,
\* callExactMethod and newObject (lines 330-414, 794-951); inside
\* handleJavaExceptions, the CallObjectMethodA of obj.call<std::string>
\* ("toString").  The managed code throws or returns; an exception it
\* throws becomes the pending one.  MaxNest bounds how deep toString() of an
\* exception throws again.
Invoke(throws, isNull) ==
    /\ cpc = "invoke"
    /\ throws => nest < MaxNest
    /\ LET ret == IF nest = 0 THEN cop.ret ELSE "std::string"
           fn  == IF nest = 0 THEN CallFunction(cop.kind, cop.ret)
                              ELSE B("CallMethodA", "std::string")
       IN /\ trace' = Append(trace, fn)
          /\ result' = IF throws \/ ret \in { "void", "int" } \/ isNull
                         THEN "null" ELSE "ref"
    /\ isNull => ~throws
    /\ isNull /\ nest = 0 => cop.ret \in { "std::string", "Object" }
    /\ isNull /\ nest = 0 => cop.kind # "newInstance"
    /\ pending' = (pending \/ throws)
    /\ thrown' = IF nest = 0 THEN throws ELSE thrown
    /\ cpc' = "occurred"
    /\ UNCHANGED << cop, member, nest, raised, prev >>
    /\ UNCHANGED << vmVars, objVars, pureVars, cacheVars >>

\* handleJavaExceptions, lines 154-160: ExceptionOccurred and the test of
\* its result.  With an exception, Object obj(exception, Temporary) makes
\* no JNIEnv call.
Occurred ==
    /\ cpc = "occurred"
    /\ LET exception == ExceptionOccurred(pending)
       IN /\ trace' = Append(trace, B("ExceptionOccurred", exception))
          /\ IF IsException(exception)
               THEN /\ nest < MaxNest + 1
                    /\ nest' = nest + 1
                    /\ cpc' = OnException
               ELSE /\ nest' = nest
                    /\ cpc' = "convert"
    /\ UNCHANGED << cop, member, pending, raised, thrown, prev, result >>
    /\ UNCHANGED << vmVars, objVars, pureVars, cacheVars >>

\* handleJavaExceptions, line 164: env->ExceptionClear().
Clear ==
    /\ cpc = "clear"
    /\ trace' = Append(trace, B("ExceptionClear", "exception"))
    /\ pending' = ExceptionClear(pending)
    /\ cpc' = "describe"
    /\ UNCHANGED << cop, member, nest, raised, thrown, prev, result >>
    /\ UNCHANGED << vmVars, objVars, pureVars, cacheVars >>

\* handleJavaExceptions, line 165, up to the call itself:
\* obj.call<std::string>("toString") resolves the method with
\* Object::getMethod (lines 560-563): getClass (lines 546-558) and
\* GetMethodID (lines 618-626).  Every Throwable has toString().
Describe ==
    /\ cpc = "describe"
    /\ trace' = trace \o << B("GetObjectClass", "exception"),
                            B("NewGlobalRef", "class"),
                            B("DeleteLocalRef", "class"),
                            B("GetMethodID", "class") >>
    /\ cpc' = "invoke"
    /\ UNCHANGED << cop, member, pending, nest, raised, thrown, prev, result >>
    /\ UNCHANGED << vmVars, objVars, pureVars, cacheVars >>

\* The rest of callMethod after handleJavaExceptions returned: the
\* conversion of the result.  For the user's call, the ArgArray is then
\* destroyed (jnipp.h lines 146-148) and the call returns; for toString()
\* of an exception, line 166 throws InvocationException.
ConvertResult ==
    /\ cpc = "convert"
    /\ IF nest = 0
         THEN /\ trace' = trace \o Convert(cop.ret, result) \o cleanupArgs(cop.args)
              /\ cpc' = "done"
              /\ UNCHANGED raised
         ELSE /\ trace' = trace \o toString(result)
              /\ raised' = "InvocationException"
              /\ cpc' = "unwind"
    /\ UNCHANGED << cop, member, pending, nest, thrown, prev, result >>
    /\ UNCHANGED << vmVars, objVars, pureVars, cacheVars >>

\* InvocationException leaves a handleJavaExceptions: its obj is destroyed
\* (lines 262-271), which deletes the class reference getClass cached.  Out
\* of the last one, the exception leaves the user's call, whose ArgArray is
\* destroyed.
Unwind ==
    /\ cpc = "unwind"
    /\ nest > 0
    /\ nest' = nest - 1
    /\ IF nest = 1
         THEN /\ trace' = Append(trace, B("DeleteGlobalRef", "class"))
                            \o cleanupArgs(cop.args)
              /\ cpc' = "done"
         ELSE /\ trace' = Append(trace, B("DeleteGlobalRef", "class"))
              /\ cpc' = "unwind"
    /\ UNCHANGED << cop, member, pending, raised, thrown, prev, result >>
    /\ UNCHANGED << vmVars, objVars, pureVars, cacheVars >>

\* The field operations: get<TType>(field) and set(field, value) of an
\* Object, and of a Class for a static field.
AccessKinds == { "get", "set", "getStatic", "setStatic" }

\* TType of a field operation; "int" stands for every primitive type.
FieldTypes == { "int", "std::string", "Object" }

\* The JNIEnv calls of a field operation, in order: Object::get and
\* Object::set, jnipp.cpp lines 416-544, Class::get and Class::set, lines
\* 676-792.  handle is what Get(Static)ObjectField returned.
FieldCalls(kind, type, handle) ==
    LET static == kind \in { "getStatic", "setStatic" }
        getFn  == IF static THEN "GetStaticField" ELSE "GetField"
        setFn  == IF static THEN "SetStaticField" ELSE "SetField"
    IN IF kind \in { "get", "getStatic" }
         THEN << B(getFn, type) >> \o Convert(type, handle)
         ELSE IF type = "std::string"
                THEN << B("NewStringUTF", "value"), B(setFn, type),
                        B("DeleteLocalRef", "value") >>
                ELSE << B(setFn, type) >>

\* A field operation, from its call to its return: no statement of it asks
\* the JVM for a pending exception.  throws is whether NewStringUTF, which
\* set calls for a std::string value, fails and leaves its OutOfMemoryError
\* pending; the other JNIEnv calls of a field operation throw nothing.
Access(kind, type, throws, isNull) ==
    /\ cpc = "idle"
    /\ throws => (kind \in { "set", "setStatic" } /\ type = "std::string")
    /\ isNull => (kind \in { "get", "getStatic" } /\ type # "int")
    /\ cop' = [ kind |-> kind, ret |-> type, args |-> << >> ]
    /\ result' = IF isNull \/ type = "int" \/ kind \in { "set", "setStatic" }
                   THEN "null" ELSE "ref"
    /\ trace' = FieldCalls(kind, type, result')
    /\ pending' = (pending \/ throws)
    /\ thrown' = throws
    /\ raised' = ""
    /\ member' = NoMember
    /\ cpc' = "done"
    /\ UNCHANGED << nest, prev >>
    /\ UNCHANGED << vmVars, objVars, pureVars, cacheVars >>

(***************************************************************************)
(* Calls by name.  A name is the sequence of its characters; the type      *)
(* codes of a descriptor are kept whole.                                   *)
(***************************************************************************)

\* The names a caller passes: a plain name, a name with the descriptor of a
\* method without parameters, a name with the descriptor of a method with
\* one parameter.
Names == { << "m" >>,
           << "m", "(", ")", "V" >>,
           << "m", "(", "I", ")", "V" >> }

\* std::strchr: the position of the first c in s, 0 for a null result.
strchr(s, c) ==
    IF \E i \in DOMAIN s : s[i] = c
      THEN CHOOSE i \in DOMAIN s : s[i] = c /\ \A j \in 1 .. (i - 1) : s[j] # c
      ELSE 0

\* std::strstr: the position of the first occurrence of sub in s, 0 for a
\* null result.
strstr(s, sub) ==
    LET at(i) == /\ i + Len(sub) - 1 <= Len(s)
                 /\ SubSeq(s, i, i + Len(sub) - 1) = sub
    IN IF \E i \in DOMAIN s : at(i)
         THEN CHOOSE i \in DOMAIN s : at(i) /\ \A j \in 1 .. (i - 1) : ~at(j)
         ELSE 0

\* Lines 1132-1135 of jnipp.cpp: every '.' of the class name becomes '/'.
Slashes(name) == [ i \in DOMAIN name |-> IF name[i] = "." THEN "/" ELSE name[i] ]

\* internal::valueSig, jnipp.h lines 68-84 and jnipp.cpp lines 1125-1138.
\* "Object" is a null Object (TReturn is a null Object pointer), "Object*" a
\* null pointer to an Object, "Object a.B" an Object of class a.B, whose
\* name Class::getName gives.  The type codes are kept whole.
valueSig(type) ==
    CASE type = "void"      -> << "V" >>
      [] type = "bool"      -> << "Z" >>
      [] type = "wchar_t"   -> << "C" >>
      [] type = "short"     -> << "S" >>
      [] type = "int"       -> << "I" >>
      [] type = "long long" -> << "J" >>
      [] type = "float"     -> << "F" >>
      [] type = "double"    -> << "D" >>
      [] type \in { "std::string", "std::wstring", "const char*",
                    "const wchar_t*", "char[N]", "wchar_t[N]" }
                            -> << "Ljava/lang/String;" >>
      [] type \in { "Object", "Object*" }
                            -> << "Ljava/lang/Object;" >>
      [] type = "Object a.B"
                            -> << "L" >> \o Slashes(<< "a", ".", "B" >>) \o << ";" >>

RECURSIVE sig_reversed(_)
\* A concatenation in the opposite order.
sig_reversed(as) ==
    IF as = << >> THEN << >> ELSE sig_reversed(Tail(as)) \o valueSig(Head(as))

RECURSIVE sig(_)
\* internal::sig, jnipp.h lines 86-91.
sig(as) ==
    IF as = << >> THEN << >> ELSE valueSig(Head(as)) \o sig(Tail(as))

\* "(" + sig(args...) + ")" + valueSig((TReturn*) nullptr).
Synthesized(ret, as) == << "(" >> \o sig(as) \o << ")" >> \o valueSig(ret)

\* NameResolutionException(name): the message is the string it is given.
NameResolutionException(name) == name

\* Class::getMethod(name, signature) and Class::getStaticMethod(name,
\* signature), jnipp.cpp lines 618-626 and 642-650: fn is GetMethodID or
\* GetStaticMethodID, called with name and signature; message is what
\* NameResolutionException gets when the id is null.
Lookup(fn, name, signature) ==
    [ fn |-> fn, name |-> name, signature |-> signature,
      message |-> NameResolutionException(name) ]

\* Class::getMethod(nameAndSignature) and
\* Class::getStaticMethod(nameAndSignature), lines 629-640 and 652-663: the
\* string is split at its first '('; without one nothing is looked up and
\* NameResolutionException(nameAndSignature) is thrown.
LookupNameAndSignature(fn, nameAndSignature) ==
    LET s == strchr(nameAndSignature, "(")
    IN IF s # 0
         THEN Lookup(fn, SubSeq(nameAndSignature, 1, s - 1),
                     SubSeq(nameAndSignature, s, Len(nameAndSignature)))
         ELSE [ fn |-> "none", name |-> << >>, signature |-> << >>,
                message |-> NameResolutionException(nameAndSignature) ]

\* The argument lists of the calls by name.
NamedArgLists == UNION { [1 .. n -> ArgKinds] : n \in 0 .. MaxNamedArgs }

\* The call templates that take a name.
Forms == { "Object::call", "Class::call",
           "Class::call(Object&)", "Class::call(Object*)" }

\* The bridge family each form's call<TReturn>(method, ...) uses.
KindOf(form) ==
    CASE form = "Object::call" -> "call"
      [] form = "Class::call"  -> "callStatic"
      [] OTHER                 -> "callExact"

\* Object::call<TReturn>(name), jnipp.h lines 255-263.
Object_call(name, ret) ==
    IF strstr(name, << "(", ")" >>) # 0
      THEN LookupNameAndSignature("GetMethodID", name)
      ELSE Lookup("GetMethodID", name, << "(", ")" >> \o valueSig(ret))

\* Object::call<TReturn>(name, args...), jnipp.h lines 288-296.
Object_call_args(name, ret, as) ==
    IF strchr(name, "(") # 0
      THEN LookupNameAndSignature("GetMethodID", name)
      ELSE Lookup("GetMethodID", name, Synthesized(ret, as))

\* Class::call<TReturn>(name), jnipp.h lines 530-534.
Class_call(name, ret) ==
    Lookup("GetMethodID", name, << "(", ")" >> \o valueSig(ret))

\* Class::call<TReturn>(name, args...), jnipp.h lines 559-567.
Class_call_args(name, ret, as) ==
    IF strchr(name, "(") # 0
      THEN LookupNameAndSignature("GetStaticMethodID", name)
      ELSE Lookup("GetStaticMethodID", name, Synthesized(ret, as))

\* Class::call<TReturn>(const Object& obj, name), jnipp.h lines 592-596,
\* and with arguments, lines 632-637 and 638-641.
Class_call_obj(name, ret, as) ==
    Lookup("GetMethodID", name, Synthesized(ret, as))

\* Class::call<TReturn>(const Object* obj, name), jnipp.h lines 597-600:
\* the call in its body is a call of itself.
Class_call_ptr(name, ret) ==
    [ fn |-> "recursion", name |-> << >>, signature |-> << >>,
      message |-> << >> ]

\* Overload resolution: the template a by-name call selects, from the form
\* and the number of arguments.
Resolve(form, name, ret, as) ==
    CASE form = "Object::call" ->
           IF as = << >> THEN Object_call(name, ret)
                         ELSE Object_call_args(name, ret, as)
      [] form = "Class::call" ->
           IF as = << >> THEN Class_call(name, ret)
                         ELSE Class_call_args(name, ret, as)
      [] form = "Class::call(Object&)" -> Class_call_obj(name, ret, as)
      [] form = "Class::call(Object*)" ->
           IF as = << >> THEN Class_call_ptr(name, ret)
                         ELSE Class_call_obj(name, ret, as)

\* What the class declares under the name "m" with the descriptor the
\* caller means: nothing, an instance method or a static method.
Declared == { "none", "instance", "static" }

\* The JVM's GetMethodID / GetStaticMethodID: the id it returns.  No method
\* has a '(' in its name.
MethodID(fn, name, declared) ==
    IF /\ strchr(name, "(") = 0
       /\ \/ fn = "GetMethodID" /\ declared = "instance"
          \/ fn = "GetStaticMethodID" /\ declared = "static"
      THEN "method" ELSE "null"

\* A lookup that accepts a null id.
IsUnresolved_never(id) == FALSE

\* if (id == nullptr) of the lookups, lines 601, 611, 622, 646.
IsUnresolved(id) == id = "null"

\* A call by name starts: the method is resolved, and with a method the
\* call goes on as the call by handle does (the ArgArray is constructed
\* after the lookup).  Object::getMethod (jnipp.cpp lines 560-568) calls
\* getClass first, which asks the JVM when nothing is cached.  A lookup that
\* finds nothing leaves NoSuchMethodError pending in the JVM and the
\* operation throws NameResolutionException.
BeginNamed(form, name, ret, as, declared, cached) ==
    /\ cpc = "idle"
    /\ cached => form = "Object::call"
    /\ LET m  == Resolve(form, name, ret, as)
           id == MethodID(m.fn, m.name, declared)
           getClass == IF form = "Object::call" /\ ~cached
                         THEN << B("GetObjectClass", "this"),
                                 B("NewGlobalRef", "class"),
                                 B("DeleteLocalRef", "class") >>
                         ELSE << >>
       IN /\ member' = [ form |-> form, given |-> name, declared |-> declared,
                         fn |-> m.fn, name |-> m.name,
                         signature |-> m.signature, message |-> m.message ]
          /\ cop' = [ kind |-> KindOf(form), ret |-> ret, args |-> as ]
          /\ CASE m.fn = "recursion" ->
                    /\ trace' = << >>
                    /\ raised' = ""
                    /\ cpc' = "recursing"
                    /\ UNCHANGED pending
               [] m.fn = "none" ->
                    /\ trace' = getClass
                    /\ raised' = "NameResolutionException"
                    /\ cpc' = "done"
                    /\ UNCHANGED pending
               [] OTHER ->
                    IF IsUnresolved(id)
                      THEN /\ trace' = Append(getClass, B(m.fn, id))
                           /\ raised' = "NameResolutionException"
                           /\ cpc' = "done"
                           /\ pending' = (pending \/ id = "null")
                      ELSE /\ trace' = Append(getClass, B(m.fn, id)) \o args(as)
                           /\ raised' = ""
                           /\ cpc' = "invoke"
                           /\ pending' = (pending \/ id = "null")
    /\ thrown' = FALSE
    /\ result' = "null"
    /\ UNCHANGED << nest, prev >>
    /\ UNCHANGED << vmVars, objVars, pureVars, cacheVars >>

\* Object::getClass as Object::getMethod and Object::getField call it,
\* jnipp.cpp lines 546-558: the JNIEnv calls when nothing is cached.
GetClassCalls(cached) ==
    IF cached THEN << >>
              ELSE << B("GetObjectClass", "this"), B("NewGlobalRef", "class"),
                      B("DeleteLocalRef", "class") >>

\* Class::newInstance(args...), jnipp.h lines 429-433: the constructor is
\* resolved with getMethod("<init>", "(" + sig(args...) + ")V"), then
\* newInstance(constructor, args...) goes on as the call by handle does.
\* found is whether the class declares the constructor.
BeginNewInstance(as, found) ==
    /\ cpc = "idle"
    /\ LET m  == Lookup("GetMethodID", << "<init>" >>,
                        << "(" >> \o sig(as) \o << ")", "V" >>)
           id == IF found THEN "method" ELSE "null"
       IN /\ member' = [ form |-> "Class::newInstance", given |-> << >>,
                         declared |-> IF found THEN "instance" ELSE "none",
                         fn |-> m.fn, name |-> m.name,
                         signature |-> m.signature, message |-> m.message ]
          /\ IF IsUnresolved(id)
               THEN /\ trace' = << B(m.fn, id) >>
                    /\ raised' = "NameResolutionException"
                    /\ cpc' = "done"
               ELSE /\ trace' = << B(m.fn, id) >> \o args(as)
                    /\ raised' = ""
                    /\ cpc' = "invoke"
          /\ pending' = (pending \/ id = "null")
    /\ cop' = [ kind |-> "newInstance", ret |-> "Object", args |-> as ]
    /\ thrown' = FALSE
    /\ result' = "null"
    /\ UNCHANGED << nest, prev >>
    /\ UNCHANGED << vmVars, objVars, pureVars, cacheVars >>

\* A field operation by name: get<TType>(name) and set(name, value) of an
\* Object (jnipp.h lines 315-319 and 338-342, with Object::getField,
\* jnipp.cpp lines 570-573) and of a Class for a static field (jnipp.h lines
\* 658-662 and 679-683).  The field is resolved with GetFieldID or
\* GetStaticFieldID and the type's descriptor; with a field, the operation
\* goes on as the one by handle does.  A lookup that finds nothing leaves
\* NoSuchFieldError pending in the JVM.
AccessNamed(kind, type, found, cached, throws, isNull) ==
    /\ cpc = "idle"
    /\ throws => (found /\ kind \in { "set", "setStatic" } /\ type = "std::string")
    /\ isNull => (found /\ kind \in { "get", "getStatic" } /\ type # "int")
    /\ cached => kind \in { "get", "set" }
    /\ LET static == kind \in { "getStatic", "setStatic" }
           m  == Lookup(IF static THEN "GetStaticFieldID" ELSE "GetFieldID",
                        << "f" >>, valueSig(type))
           id == IF found THEN "field" ELSE "null"
           getClass == IF static THEN << >> ELSE GetClassCalls(cached)
       IN /\ member' = [ form |-> kind, given |-> << "f" >>,
                         declared |-> IF ~found THEN "none"
                                      ELSE IF static THEN "static" ELSE "instance",
                         fn |-> m.fn, name |-> m.name,
                         signature |-> m.signature, message |-> m.message ]
          /\ result' = IF ~found \/ isNull \/ type = "int"
                          \/ kind \in { "set", "setStatic" }
                         THEN "null" ELSE "ref"
          /\ IF IsUnresolved(id)
               THEN /\ trace' = Append(getClass, B(m.fn, id))
                    /\ raised' = "NameResolutionException"
               ELSE /\ trace' = Append(getClass, B(m.fn, id))
                                  \o FieldCalls(kind, type, result')
                    /\ raised' = ""
          /\ pending' = (pending \/ throws \/ id = "null")
    /\ cop' = [ kind |-> kind, ret |-> type, args |-> << >> ]
    /\ thrown' = throws
    /\ cpc' = "done"
    /\ UNCHANGED << nest, prev >>
    /\ UNCHANGED << vmVars, objVars, pureVars, cacheVars >>

\* Class::Class(const char* name), jnipp.cpp lines 579-581, with findClass,
\* lines 144-152: FindClass, and with a class the Object constructor of
\* lines 244-254 with DeleteLocalInput.  A FindClass that finds nothing
\* leaves NoClassDefFoundError pending in the JVM.
FindClass(found) ==
    /\ cpc = "idle"
    /\ LET id == IF found THEN "class" ELSE "null"
       IN /\ member' = [ form |-> "Class::Class", given |-> << "C" >>,
                         declared |-> IF found THEN "class" ELSE "none",
                         fn |-> "FindClass", name |-> << "C" >>,
                         signature |-> << >>,
                         message |-> NameResolutionException(<< "C" >>) ]
          /\ IF IsUnresolved(id)
               THEN /\ trace' = << B("FindClass", id) >>
                    /\ raised' = "NameResolutionException"
               ELSE /\ trace' = << B("FindClass", id), B("NewGlobalRef", "class"),
                                   B("DeleteLocalRef", "class") >>
                    /\ raised' = ""
          /\ pending' = (pending \/ id = "null")
          /\ result' = IF found THEN "ref" ELSE "null"
    /\ cop' = [ kind |-> "findClass", ret |-> "Object", args |-> << >> ]
    /\ thrown' = FALSE
    /\ cpc' = "done"
    /\ UNCHANGED << nest, prev >>
    /\ UNCHANGED << vmVars, objVars, pureVars, cacheVars >>

\* The caller has the result or has caught the exception; the record of the
\* operation is dropped.
Finish ==
    /\ cpc = "done"
    /\ prev' = raised
    /\ cpc' = "idle"
    /\ cop' = NoCall
    /\ trace' = << >>
    /\ raised' = ""
    /\ thrown' = FALSE
    /\ member' = NoMember
    /\ result' = "null"
    /\ UNCHANGED << pending, nest >>
    /\ UNCHANGED << vmVars, objVars, pureVars, cacheVars >>

NextCall ==
    \/ \E kind \in CallKinds, ret \in Rets, as \in ArgLists : Begin(kind, ret, as)
    \/ \E form \in Forms, name \in Names, ret \in Rets, as \in NamedArgLists,
          declared \in Declared, cached \in BOOLEAN :
           BeginNamed(form, name, ret, as, declared, cached)
    \/ \E throws, isNull \in BOOLEAN : Invoke(throws, isNull)
    \/ Occurred
    \/ Clear
    \/ Describe
    \/ ConvertResult
    \/ Unwind
    \/ \E kind \in AccessKinds, type \in FieldTypes, throws, isNull \in BOOLEAN :
           Access(kind, type, throws, isNull)
    \/ \E as \in NamedArgLists, found \in BOOLEAN : BeginNewInstance(as, found)
    \/ \E kind \in AccessKinds, type \in FieldTypes,
          found, cached, throws, isNull \in BOOLEAN :
           AccessNamed(kind, type, found, cached, throws, isNull)
    \/ \E found \in BOOLEAN : FindClass(found)
    \/ Finish

\* No Object exists and no call is under way.
NoObjects ==
    [ objs |-> [o \in Objs |-> Dead], refs |-> [h \in Handles |-> FreeSlot] ]

\* The state of a process at its start: nothing of the library has run.  The
\* process may have been started by a JVM, with some threads attached.
InitVm ==
    /\ isVm = FALSE
    /\ javaVm = NULL
    /\ pc = [t \in Threads |-> "idle"]
    /\ path = [t \in Threads |-> "none"]
    /\ lib = [t \in Threads |-> NULL]
    /\ res = [t \in Threads |-> NoResult]
    /\ env_vm = [t \in Threads |-> NULL]
    /\ env_env = [t \in Threads |-> NULL]
    /\ env_attached = [t \in Threads |-> FALSE]
    /\ hostVm \in BOOLEAN
    /\ vmCreated = 0
    /\ jvmAttached \in [Threads -> BOOLEAN]
    /\ \A t \in Threads : jvmAttached[t] => hostVm
    /\ openLibs = 0
    /\ vmObjs = 0
    /\ everDestroyed = FALSE
    /\ selfAttached = [t \in Threads |-> FALSE]
    /\ objs = NoObjects.objs
    /\ refs = NoObjects.refs
    /\ rel = << >>
    /\ last = NoOp
    /\ cpc = "idle"
    /\ cop = NoCall
    /\ pending = FALSE
    /\ nest = 0
    /\ trace = << >>
    /\ raised = ""
    /\ thrown = FALSE
    /\ prev = "none"
    /\ member = NoMember
    /\ result = "null"
    /\ sigArgs = << >>
    /\ sigRet = "void"
    /\ descriptor = << >>
    /\ wstr = << >>
    /\ jstr = << >>
    /\ back = << >>
    /\ cvt = "none"
    /\ gpc = [t \in Threads |-> "idle"]
    /\ classRef = [t \in Threads |-> NULL]
    /\ returned = [t \in Threads |-> NULL]
    /\ ncalls = [t \in Threads |-> 0]
    /\ cache = NULL
    /\ shared = TRUE
    /\ made = 0
    /\ globals = { }
    /\ overlapped = FALSE

\* The state after jni::Vm vm; and a first env() on thread 1, the thread of
\* the program: the VM is up and the thread's JNIEnv is cached.  No Object
\* exists yet.
InitUp ==
    /\ isVm = TRUE
    /\ javaVm = THE_VM
    /\ pc = [t \in Threads |-> "idle"]
    /\ path = [t \in Threads |-> "none"]
    /\ lib = [t \in Threads |-> NULL]
    /\ res = [t \in Threads |-> NoResult]
    /\ env_vm = [t \in Threads |-> IF t = 1 THEN THE_VM ELSE NULL]
    /\ env_env = [t \in Threads |-> IF t = 1 THEN t ELSE NULL]
    /\ env_attached = [t \in Threads |-> FALSE]
    /\ hostVm = FALSE
    /\ vmCreated = 1
    /\ jvmAttached = [t \in Threads |-> t = 1]
    /\ openLibs = 1
    /\ vmObjs = 1
    /\ everDestroyed = FALSE
    /\ selfAttached = [t \in Threads |-> FALSE]
    /\ objs = NoObjects.objs
    /\ refs = NoObjects.refs
    /\ rel = << >>
    /\ last = NoOp
    /\ cpc = "idle"
    /\ cop = NoCall
    /\ pending = FALSE
    /\ nest = 0
    /\ trace = << >>
    /\ raised = ""
    /\ thrown = FALSE
    /\ prev = "none"
    /\ member = NoMember
    /\ result = "null"
    /\ sigArgs = << >>
    /\ sigRet = "void"
    /\ descriptor = << >>
    /\ wstr = << >>
    /\ jstr = << >>
    /\ back = << >>
    /\ cvt = "none"
    /\ gpc = [t \in Threads |-> "idle"]
    /\ classRef = [t \in Threads |-> NULL]
    /\ returned = [t \in Threads |-> NULL]
    /\ ncalls = [t \in Threads |-> 0]
    /\ cache = NULL
    /\ shared = TRUE
    /\ made = 0
    /\ globals = { }
    /\ overlapped = FALSE

NextVm ==
    \E t \in Threads :
        \/ \E p \in {"empty", "bad", "good"} : VmBegin(t, p)
        \/ VmGuard(t)
        \/ VmLoad(t)
        \/ \E symbol \in BOOLEAN, created \in BOOLEAN : VmCreate(t, symbol, created)
        \/ VmUnload(t)
        \/ VmDestroy(t)
        \/ InitGuard(t)
        \/ \E acquired \in BOOLEAN : InitAcquire(t, acquired)
        \/ \E attachOk \in BOOLEAN : Env(t, attachOk)
        \/ ThreadExit(t)
        \/ \E arrivesAttached \in BOOLEAN : ThreadStart(t, arrivesAttached)
        \/ Return(t)

SpecVm == InitVm /\ [][NextVm]_vars

SpecObj == InitUp /\ [][NextObj]_vars

SpecCall == InitUp /\ [][NextCall]_vars

(***************************************************************************)
(* Signature synthesis.                                                    *)
(***************************************************************************)

\* The types of an argument: the primitive types, the string kinds, a null
\* Object, a null pointer to an Object and an Object of class a.B.
SigArgTypes == { "bool", "wchar_t", "short", "int", "long long", "float",
                 "double", "std::string", "std::wstring", "const char*",
                 "const wchar_t*", "char[N]", "wchar_t[N]", "Object",
                 "Object*", "Object a.B" }

\* The types of a return value.
SigRetTypes == { "void", "bool", "wchar_t", "short", "int", "long long",
                 "float", "double", "std::string", "std::wstring", "Object" }

\* A call by name is about to synthesize the descriptor of its method, for
\* any argument types and return type; the VM is up.
InitSig ==
    /\ isVm = TRUE
    /\ javaVm = THE_VM
    /\ pc = [t \in Threads |-> "idle"]
    /\ path = [t \in Threads |-> "none"]
    /\ lib = [t \in Threads |-> NULL]
    /\ res = [t \in Threads |-> NoResult]
    /\ env_vm = [t \in Threads |-> IF t = 1 THEN THE_VM ELSE NULL]
    /\ env_env = [t \in Threads |-> IF t = 1 THEN t ELSE NULL]
    /\ env_attached = [t \in Threads |-> FALSE]
    /\ hostVm = FALSE
    /\ vmCreated = 1
    /\ jvmAttached = [t \in Threads |-> t = 1]
    /\ openLibs = 1
    /\ vmObjs = 1
    /\ everDestroyed = FALSE
    /\ selfAttached = [t \in Threads |-> FALSE]
    /\ objs = NoObjects.objs
    /\ refs = NoObjects.refs
    /\ rel = << >>
    /\ last = NoOp
    /\ cpc = "idle"
    /\ cop = NoCall
    /\ pending = FALSE
    /\ nest = 0
    /\ trace = << >>
    /\ raised = ""
    /\ thrown = FALSE
    /\ prev = "none"
    /\ member = NoMember
    /\ result = "null"
    /\ sigArgs \in UNION { [1 .. n -> SigArgTypes] : n \in 0 .. MaxSigArgs }
    /\ sigRet \in SigRetTypes
    /\ descriptor = << >>
    /\ wstr = << >>
    /\ jstr = << >>
    /\ back = << >>
    /\ cvt = "none"
    /\ gpc = [t \in Threads |-> "idle"]
    /\ classRef = [t \in Threads |-> NULL]
    /\ returned = [t \in Threads |-> NULL]
    /\ ncalls = [t \in Threads |-> 0]
    /\ cache = NULL
    /\ shared = TRUE
    /\ made = 0
    /\ globals = { }
    /\ overlapped = FALSE

\* std::string sig = "(" + internal::sig(args...) + ")" +
\* internal::valueSig((TReturn*) nullptr), jnipp.h line 293.
Synthesize ==
    /\ descriptor = << >>
    /\ descriptor' = Synthesized(sigRet, sigArgs)
    /\ UNCHANGED << sigArgs, sigRet >>
    /\ UNCHANGED << vmVars, objVars, callVars, strVars, cacheVars >>

NextSig == Synthesize

SpecSig == InitSig /\ [][NextSig]_vars

(***************************************************************************)
(* The string conversions of jnipp.cpp (the build for systems whose        *)
(* wchar_t has 32 bits and is signed, as on Linux).                         *)
(***************************************************************************)

\* A value stored in a jchar: 16 bits, unsigned.
JChar(x) == x % 65536

\* Line 96: str[i++], the unit the second half of the character is taken
\* from.
SecondUnit(str, i) == str[i]

RECURSIVE toWStringFrom(_, _, _)
\* The loop of toWString, lines 86-102, from index i (counted from 1) with
\* the result so far in wide.  ch is a signed wchar_t of 32 bits: with units
\* of 16 bits its values lie between -66560 and 1047551 and never wrap.
toWStringFrom(str, i, wide) ==
    IF i > Len(str) THEN wide
    ELSE IF str[i] >= 55296 /\ str[i] <= 56319
      THEN IF i + 1 > Len(str)
             THEN wide
             ELSE LET ch == (str[i] - 55296) * 1024
                              + SecondUnit(str, i) - 121856
                  IN toWStringFrom(str, i + 2, Append(wide, ch))
      ELSE toWStringFrom(str, i + 1, Append(wide, str[i]))

\* toWString(const jchar* str, jsize length), lines 80-105.
toWString(str) == toWStringFrom(str, 1, << >>)

RECURSIVE toJString(_)
\* toJString(const wchar_t* str, size_t length), lines 107-130.
toJString(str) ==
    IF str = << >> THEN << >>
    ELSE LET ch == Head(str)
         IN IF ch > 65535
              THEN << JChar(55296 + ((ch - 65536) \div 1024)),
                      JChar(56320 + ((ch - 65536) % 1024)) >>
                   \o toJString(Tail(str))
              ELSE << JChar(ch) >> \o toJString(Tail(str))

\* Unicode code points a wide string is made of: from the basic plane
\* (outside the surrogate range) and from above 0xFFFF.
CodePoints == { 0, 65, 55295, 57344, 65535, 65536, 128512, 1114111 }

\* A wide string of at most MaxWLen code points is about to be converted;
\* the VM is up.
InitStr ==
    /\ isVm = TRUE
    /\ javaVm = THE_VM
    /\ pc = [t \in Threads |-> "idle"]
    /\ path = [t \in Threads |-> "none"]
    /\ lib = [t \in Threads |-> NULL]
    /\ res = [t \in Threads |-> NoResult]
    /\ env_vm = [t \in Threads |-> IF t = 1 THEN THE_VM ELSE NULL]
    /\ env_env = [t \in Threads |-> IF t = 1 THEN t ELSE NULL]
    /\ env_attached = [t \in Threads |-> FALSE]
    /\ hostVm = FALSE
    /\ vmCreated = 1
    /\ jvmAttached = [t \in Threads |-> t = 1]
    /\ openLibs = 1
    /\ vmObjs = 1
    /\ everDestroyed = FALSE
    /\ selfAttached = [t \in Threads |-> FALSE]
    /\ objs = NoObjects.objs
    /\ refs = NoObjects.refs
    /\ rel = << >>
    /\ last = NoOp
    /\ cpc = "idle"
    /\ cop = NoCall
    /\ pending = FALSE
    /\ nest = 0
    /\ trace = << >>
    /\ raised = ""
    /\ thrown = FALSE
    /\ prev = "none"
    /\ member = NoMember
    /\ result = "null"
    /\ sigArgs = << >>
    /\ sigRet = "void"
    /\ descriptor = << >>
    /\ wstr \in UNION { [1 .. n -> CodePoints] : n \in 0 .. MaxWLen }
    /\ jstr = << >>
    /\ back = << >>
    /\ cvt = "wide"
    /\ gpc = [t \in Threads |-> "idle"]
    /\ classRef = [t \in Threads |-> NULL]
    /\ returned = [t \in Threads |-> NULL]
    /\ ncalls = [t \in Threads |-> 0]
    /\ cache = NULL
    /\ shared = TRUE
    /\ made = 0
    /\ globals = { }
    /\ overlapped = FALSE

\* The wide string is converted for the JVM, as valueArg and Object::set do
\* for a std::wstring (lines 1176-1180).
ToJString ==
    /\ cvt = "wide"
    /\ jstr' = toJString(wstr)
    /\ cvt' = "utf16"
    /\ UNCHANGED << wstr, back >>
    /\ UNCHANGED << vmVars, objVars, callVars, sigVars, cacheVars >>

\* The string comes back from the JVM and is converted, as
\* callMethod<std::wstring> does (lines 402-407, with lines 189-209).
ToWString ==
    /\ cvt = "utf16"
    /\ back' = toWString(jstr)
    /\ cvt' = "done"
    /\ UNCHANGED << wstr, jstr >>
    /\ UNCHANGED << vmVars, objVars, callVars, sigVars, cacheVars >>

NextStr == ToJString \/ ToWString

SpecStr == InitStr /\ [][NextStr]_vars

(***************************************************************************)
(* Claims about the exception bridge, checked under SpecCall.              *)
(***************************************************************************)

\* The call of ExceptionOccurred that found a pending exception.
Detection == B("ExceptionOccurred", "exception")

\* The positions of trace at which JNIEnv call c stands.
At(c) == { i \in DOMAIN trace : trace[i] = c }

\* The position of the user's Call...MethodA / NewObjectA in trace.
CallAt ==
    IF cop.kind \in CallKinds
      THEN { i \in DOMAIN trace : trace[i] = CallFunction(cop.kind, cop.ret) }
      ELSE { }

\* C4: when the managed method or constructor of an operation threw, the
\* operation ends by throwing InvocationException with no exception pending
\* in the JVM; and the operation that follows one that threw
\* InvocationException, if its own method is called and does not throw,
\* returns normally.
C4_ThrowRaisesAndClears ==
    cop.kind \in CallKinds =>
      /\ (cpc = "done" /\ thrown) => (raised = "InvocationException" /\ ~pending)
      /\ (cpc = "done" /\ ~thrown /\ CallAt # { } /\ prev = "InvocationException")
            => raised = ""

\* C4 witness: a call whose method did not throw returned normally right
\* after an operation that ended with InvocationException.
C4_Witness ==
    /\ cpc = "done"
    /\ cop.kind \in CallKinds
    /\ ~thrown
    /\ prev = "InvocationException"
    /\ raised = ""
    /\ ~pending

\* C5: after the ExceptionOccurred that finds a pending exception, the next
\* JNIEnv function called is ExceptionClear: no call of toString, no
\* deletion of an argument reference and no throw of InvocationException
\* comes in between.
C5_ClearFirst ==
    \A i \in 1 .. Len(trace) :
        trace[i] = Detection
        => IF i < Len(trace)
             THEN trace[i + 1] = B("ExceptionClear", "exception")
             ELSE raised = "" /\ cpc = "clear"

\* C5 witness: an operation has ended with InvocationException; after the
\* detection and the clearing, toString was called and an argument reference
\* was deleted.
C5_Witness ==
    /\ cpc = "done"
    /\ raised = "InvocationException"
    /\ \E i, j, k \in 1 .. Len(trace) :
          /\ i + 1 < j /\ j < k
          /\ trace[i] = Detection
          /\ trace[i + 1] = B("ExceptionClear", "exception")
          /\ trace[j] = B("CallMethodA", "std::string")
          /\ trace[k] = B("DeleteLocalRef", "arg")

(***************************************************************************)
(* Claims about Object lifetimes, checked under SpecObj.                   *)
(***************************************************************************)

\* Object s wraps a live reference to a managed object.
NonNull(s) == objs[s].alive /\ Live(refs, objs[s].handle)

\* C1: every DeleteGlobalRef an Object issues is on a global reference that
\* is live at the call (so none is released twice) and that this Object
\* created or received by move; a Temporary wrapper therefore never releases
\* the handle it borrows.
C1_ReleaseOwnLiveOnly ==
    \A i \in 1 .. Len(rel) : rel[i].live /\ rel[i].own

\* C1 witness: an Object released both its handle and its class cache while a
\* Temporary wrapper of a live handle was around.
C1_Witness ==
    /\ last \in { "dtor", "copyAssign", "moveAssign" }
    /\ Len(rel) = 2
    /\ \A i \in 1 .. Len(rel) : rel[i].live /\ rel[i].own
    /\ \E t \in Objs : NonNull(t) /\ ~objs[t].isGlobal
                       /\ refs[objs[t].handle].kind = "global"

\* C2: copying a non-null Object s into another Object o, by construction or
\* by assignment, leaves o with a new global reference of its own to the same
\* managed object, at a handle distinct from s's, and leaves s's reference
\* live.
C2_CopyOwnsNewRef ==
    [][ \A o, s \in Objs :
          ( /\ o # s
            /\ NonNull(s)
            /\ CopyConstruct(o, s) \/ CopyAssign(o, s) )
          => /\ objs'[o].handle # NULL
             /\ objs'[o].handle # objs'[s].handle
             /\ objs'[o].isGlobal
             /\ refs'[objs'[o].handle].kind = "global"
             /\ refs'[objs'[o].handle].owner = o
             /\ refs'[objs'[o].handle].to = refs[objs[s].handle].to
             /\ objs'[s] = objs[s]
             /\ refs'[objs[s].handle] = refs[objs[s].handle] ]_vars

\* C3: moving a non-null Object s into another Object o, by construction or
\* by assignment, leaves s null with no handle and no class cache, and o
\* with exactly the handle, global flag and class cache s held; the moved
\* handle is neither released nor created anew.
C3_MoveNullsSource ==
    [][ \A o, s \in Objs :
          ( /\ o # s
            /\ NonNull(s)
            /\ MoveConstruct(o, s) \/ MoveAssign(o, s) )
          => /\ objs'[s].handle = NULL
             /\ objs'[s].cls = NULL
             /\ ~objs'[s].isGlobal
             /\ objs'[o].handle = objs[s].handle
             /\ objs'[o].isGlobal = objs[s].isGlobal
             /\ objs'[o].cls = objs[s].cls
             /\ refs'[objs[s].handle].kind = refs[objs[s].handle].kind
             /\ refs'[objs[s].handle].to = refs[objs[s].handle].to ]_vars


(***************************************************************************)
(* Claims about the process-wide state, checked under SpecVm.              *)
(***************************************************************************)
VmPcs == { "cas", "load", "create", "unload" }

\* Thread t finishes an env() call in this step.
EnvStep(t) == pc[t] = "idle" /\ pc'[t] = "ret" /\ res'[t].op = "env"

\* Thread t ends in this step.
ExitStep(t) == pc[t] = "idle" /\ pc'[t] = "exited"

\* Thread t leaves Vm::Vm in this step, by return or by throw.
VmEndStep(t) == pc[t] \in VmPcs \cup {"idle"} /\ pc'[t] = "ret" /\ res'[t].op = "Vm"

\* C6: per thread, the first env() call takes the JNIEnv the VM reports for
\* a thread that is already attached (GetEnv alone, not marked attached) and
\* otherwise attaches it (GetEnv, AttachCurrentThread, marked attached);
\* later env() calls return the cached JNIEnv and call neither; at thread
\* exit DetachCurrentThread is called exactly when ScopedEnv::init attached
\* the thread itself, never for a thread that was attached already.
C6_EnvCachePerThread ==
    [][ \A t \in Threads :
          /\ (EnvStep(t) /\ env_env[t] = NULL /\ javaVm # NULL /\ jvmAttached[t]) =>
                /\ res'[t].err = "ok" /\ res'[t].calls = << "GetEnv" >>
                /\ env_env'[t] = t /\ ~env_attached'[t]
          /\ (EnvStep(t) /\ env_env[t] = NULL /\ javaVm # NULL /\ ~jvmAttached[t]) =>
                /\ res'[t].calls = << "GetEnv", "AttachCurrentThread" >>
                /\ res'[t].err = "ok" =>
                      env_env'[t] = t /\ env_attached'[t] /\ jvmAttached'[t]
          /\ (EnvStep(t) /\ env_env[t] # NULL) =>
                /\ res'[t].err = "ok" /\ res'[t].calls = << >>
                /\ env_env'[t] = env_env[t] /\ env_attached'[t] = env_attached[t]
          /\ ExitStep(t) =>
                /\ ("DetachCurrentThread" \in { res'[t].calls[i] : i \in DOMAIN res'[t].calls })
                      <=> selfAttached[t]
                /\ ~selfAttached[t] => jvmAttached'[t] = jvmAttached[t]
      ]_vars

\* A later env() call on a thread the wrapper attached itself: it returns the
\* cached JNIEnv without a call to the VM.
C6_Witness ==
    \E t \in Threads :
        /\ pc[t] = "ret" /\ res[t].op = "env" /\ res[t].calls = << >>
        /\ env_attached[t] /\ selfAttached[t] /\ env_env[t] = t

\* C7: while a Vm object is live, a Vm construction that reaches its guard
\* or its end fails with InitializationException and changes neither isVm
\* nor javaVm; at most one Vm object is live, and while it is, isVm is true
\* and javaVm is set.
C7_SecondVmFails ==
    /\ [](vmObjs <= 1 /\ (vmObjs = 1 => isVm /\ javaVm # NULL))
    /\ [][ \A t \in Threads :
             (vmObjs >= 1 /\ (VmEndStep(t) \/ (pc[t] = "cas" /\ pc'[t] # "cas"))) =>
                /\ pc'[t] = "ret"
                /\ res'[t].err \in InitializationException
                /\ isVm' = isVm /\ javaVm' = javaVm /\ vmObjs' = vmObjs
         ]_vars

\* A second construction has just thrown "already initialized" while the
\* first Vm is live.
C7_Witness ==
    \E t \in Threads :
        /\ pc[t] = "ret" /\ res[t].op = "Vm" /\ res[t].err = ErrAlready
        /\ vmObjs = 1 /\ isVm /\ javaVm # NULL

\* C8: of the threads that construct a Vm concurrently at most one is past
\* the guard at a time (about to load the library or to call
\* JNI_CreateJavaVM), and an attempt that loses the guard throws
\* InitializationException having neither loaded a library nor called
\* JNI_CreateJavaVM.
C8_GuardSerialises ==
    /\ [](Cardinality({ t \in Threads : pc[t] \in {"load", "create"} }) <= 1)
    /\ [](\A t \in Threads :
            (pc[t] = "ret" /\ res[t].op = "Vm" /\ res[t].err = ErrAlready) =>
                ~res[t].loaded /\ ~res[t].created)
    /\ [][ \A t \in Threads :
             (pc[t] = "cas" /\ pc'[t] # "cas"
                 /\ \E u \in Threads \ {t} : pc[u] \in {"load", "create"}) =>
                pc'[t] = "ret" /\ res'[t].err = ErrAlready
         ]_vars

\* One thread is past the guard while another has just lost it.
C8_Witness ==
    \E t, u \in Threads :
        /\ t # u
        /\ pc[t] = "create"
        /\ pc[u] = "ret" /\ res[u].op = "Vm" /\ res[u].err = ErrAlready

\* C9: once a Vm has been constructed and destroyed, no later Vm
\* construction succeeds (no Vm object is live ever again).
C9_NoResurrection == everDestroyed => vmObjs = 0

\* C10: a Vm construction that won the guard and then fails (the library
\* does not load, JNI_CreateJavaVM is missing or returns an error) stores
\* false in isVm with javaVm still null, throws InitializationException, and
\* has closed the library handle it opened when the throw reaches the
\* caller: every open handle is the created VM's or that of a constructor
\* still running.
C10_FailedVmRollsBack ==
    /\ [](\A t \in Threads :
            (pc[t] = "ret" /\ res[t].op = "Vm") =>
                /\ lib[t] = NULL
                /\ res[t].err \in {"ok"} \cup InitializationException)
    /\ [](openLibs = vmCreated + Cardinality({ t \in Threads : lib[t] # NULL }))
    /\ [][ \A t \in Threads :
             (pc[t] \in {"load", "create"} /\ pc'[t] \in {"ret", "unload"}
                 /\ res'[t].err # "ok") =>
                /\ res'[t].err \in {ErrLoad, ErrCreate}
                /\ isVm /\ ~isVm' /\ javaVm' = NULL
         ]_vars

\* A construction failed after it had won the guard, and a later one, with a
\* library that loads, created the VM.
C10_Witness ==
    \E t, u \in Threads :
        /\ pc[t] = "ret" /\ res[t].op = "Vm" /\ res[t].err = ErrCreate /\ lib[t] = NULL
        /\ pc[u] = "ret" /\ res[u].op = "Vm" /\ res[u].err = "ok" /\ res[u].created

\* C11: a Vm construction that starts while no Vm is live and is given a
\* library path that cannot be loaded ends with InitializationException.
C11_BadPathThrows ==
    [][ \A t \in Threads :
          ( /\ path[t] = "bad"
            /\ vmObjs = 0
            /\ pc[t] \in { "cas", "load" }
            /\ pc'[t] = "ret" )
          => res'[t].err \in InitializationException ]_vars

\* C12: init(env) called while the process-wide JavaVM handle is already
\* captured returns normally without calling GetJavaVM, and leaves javaVm and
\* isVm as they were.
C12_InitAgainNoOp ==
    [][ \A t \in Threads :
          /\ ( /\ javaVm # NULL
               /\ pc[t] = "idle"
               /\ pc'[t] \in { "acquire", "ret" }
               /\ res'[t].op = "init" )
             => /\ isVm' = isVm
                /\ javaVm' = javaVm
                /\ res'[t].err = "ok"
                /\ res'[t].calls = << >>
          /\ ( /\ javaVm # NULL
               /\ pc[t] = "acquire"
               /\ pc'[t] = "ret" )
             => /\ isVm' = isVm
                /\ javaVm' = javaVm
                /\ res'[t].err = "ok"
                /\ res'[t].calls = << >> ]_vars

\* C13: env() throws InitializationException when javaVm is null and when
\* AttachCurrentThread fails; after either throw the thread's ScopedEnv is
\* as empty as before (no JavaVM, no JNIEnv, not marked attached); and an
\* env() call on a thread with an empty ScopedEnv, once javaVm is set, asks
\* the VM again.
C13_EnvFailureKeepsCacheEmpty ==
    [][ \A t \in Threads :
          EnvStep(t) =>
            /\ (env_env[t] = NULL /\ javaVm = NULL) =>
                  res'[t].err = ErrNotInit /\ res'[t].calls = << >>
            /\ ( /\ res'[t].calls = << "GetEnv", "AttachCurrentThread" >>
                 /\ ~jvmAttached'[t] ) =>
                  res'[t].err = ErrAttach
            /\ res'[t].err \in { ErrNotInit, ErrAttach } =>
                  /\ res'[t].err \in InitializationException
                  /\ env_env[t] = NULL
                  /\ env_env'[t] = NULL
                  /\ env_vm'[t] = NULL
                  /\ ~env_attached'[t]
                  /\ selfAttached'[t] = selfAttached[t]
            /\ (env_env[t] = NULL /\ javaVm # NULL) =>
                  res'[t].calls # << >>
      ]_vars

\* C13 witness: an env() call has just failed to attach its thread, and the
\* thread's ScopedEnv is empty while javaVm is set, so that the next env()
\* call asks the VM again.
C13_Witness ==
    \E t \in Threads :
        /\ pc[t] = "ret" /\ res[t].op = "env" /\ res[t].err = ErrAttach
        /\ env_env[t] = NULL /\ env_vm[t] = NULL /\ ~env_attached[t]
        /\ javaVm # NULL

(***************************************************************************)
(* Claims about argument conversion, checked under SpecCall.               *)
(***************************************************************************)

\* C14: when an operation has ended, normally or by an exception, every
\* local string reference that the conversion of its arguments created has
\* been deleted exactly once, after the call; arguments that create no
\* reference cause no deletion.
C14_ArgHandlesDeletedOnce ==
    cpc = "done" =>
        /\ Cardinality(At(B("DeleteLocalRef", "arg")))
             = Cardinality(At(B("NewStringUTF", "arg")))
        /\ \A d \in At(B("DeleteLocalRef", "arg")) : \E c \in CallAt : c < d

\* C15: a field operation (get or set, on an Object or on a Class) one of
\* whose JNIEnv calls left an exception pending ends with
\* InvocationException, and no exception is pending when it ends.
C15_FieldAccessRunsBridge ==
    (cpc = "done" /\ cop.kind \in AccessKinds /\ thrown)
        => (raised = "InvocationException" /\ ~pending)

(***************************************************************************)
(* Claims about the target of a failed operation, checked under SpecObj.   *)
(***************************************************************************)

\* The last step was an operation on an Object that failed.
Failed == last' \in { "NameResolutionException", "InvocationException" }

\* C16 as stated: an operation that fails with a name-resolution or an
\* invocation error leaves every Object, its handle, its global flag and its
\* cached class reference, exactly as it was.
C16_FailureLeavesTarget ==
    [][ Failed => objs' = objs ]_vars

\* C16 amended: an operation that fails with a name-resolution or an
\* invocation error leaves the handle and the global flag of every Object as
\* they were, and a class reference that was cached stays the same; the
\* only change is that an empty class cache may have been filled.  No
\* reference is released.
C16_FailureKeepsHandle ==
    [][ Failed =>
          /\ \A o \in Objs :
                /\ objs'[o].alive = objs[o].alive
                /\ objs'[o].handle = objs[o].handle
                /\ objs'[o].isGlobal = objs[o].isGlobal
                /\ objs[o].cls # NULL => objs'[o].cls = objs[o].cls
          /\ \A h \in Handles : refs[h].kind # "free" => refs'[h] = refs[h]
      ]_vars

\* C16 witness: a by-name operation has failed and the class cache of an
\* Object is filled.
C16_Witness ==
    /\ last = "NameResolutionException"
    /\ \E o \in Objs : NonNull(o) /\ objs[o].isGlobal /\ objs[o].cls # NULL

(***************************************************************************)
(* Claims about calls by name, checked under SpecCall.                     *)
(***************************************************************************)

\* The JNIEnv call family each form of call is to use: the virtual one for
\* Object::call, the static one for Class::call without a target Object, the
\* non-virtual one for Class::call with a target Object.
FamilyOf(form) ==
    CASE form = "Object::call" -> "CallMethodA"
      [] form = "Class::call"  -> "CallStaticMethodA"
      [] OTHER                 -> "CallNonvirtualMethodA"

\* C17: a Class::call by name without a target Object looks the method up
\* with GetStaticMethodID; every call by name whose method is resolved
\* invokes it, Object::call through CallMethodA, Class::call without a target
\* through CallStaticMethodA and Class::call with a target Object through
\* CallNonvirtualMethodA; a static method the class declares is resolved.
C17_CallFamilies ==
    member.form \in Forms =>
      /\ cpc # "recursing"
      /\ member.form = "Class::call" => member.fn = "GetStaticMethodID"
      /\ ( /\ cpc = "done"
           /\ member.form = "Class::call"
           /\ member.declared = "static"
           /\ strchr(member.given, "(") = 0 )
         => raised # "NameResolutionException"
      /\ (cpc = "done" /\ raised # "NameResolutionException")
         => \E i \in DOMAIN trace : trace[i] = B(FamilyOf(member.form), cop.ret)


\* C18: Object::call by name looks the method up with GetMethodID in every
\* call.  When the name contains a descriptor, the lookup gets the part
\* before the descriptor as the name and the descriptor as it stands;
\* otherwise it gets the name and the descriptor synthesized from the
\* arguments and TReturn, and the call goes on as the call with the method
\* handle does: the conversion of the arguments follows the lookup.
C18_DescriptorVerbatimOrSynthesized ==
    member.form = "Object::call" =>
      LET s == strchr(member.given, "(")
      IN /\ \E i \in DOMAIN trace : trace[i].fn = "GetMethodID"
         /\ member.fn = "GetMethodID"
         /\ s # 0 => /\ member.name = SubSeq(member.given, 1, s - 1)
                     /\ member.signature
                          = SubSeq(member.given, s, Len(member.given))
         /\ s = 0 => /\ member.name = member.given
                     /\ member.signature = Synthesized(cop.ret, cop.args)
         /\ (s = 0 /\ cpc = "invoke" /\ nest = 0)
            => \E i \in DOMAIN trace :
                  /\ trace[i] = B("GetMethodID", "method")
                  /\ SubSeq(trace, i + 1, Len(trace)) = args(cop.args)


\* C19: an operation whose lookup of a class, a method, a static method, a
\* field, a static field or a constructor gave null, or that found no
\* descriptor to look up, throws NameResolutionException with the name it
\* could not resolve as the message; the method or constructor is never
\* called, the field never read or written and no Class object made.  An
\* operation whose lookup gave a member does not throw it.
C19_UnresolvedThrows ==
    (member.form # "none" /\ cpc # "recursing") =>
      LET null == \/ member.fn = "none"
                  \/ \E i \in DOMAIN trace : trace[i] = B(member.fn, "null")
      IN /\ null => /\ cpc = "done"
                    /\ raised = "NameResolutionException"
                    /\ member.message # << >>
                    /\ member.message
                         = IF member.fn = "none" THEN member.given
                                                 ELSE member.name
                    /\ \A i \in DOMAIN trace :
                          trace[i].fn \notin
                            { "CallMethodA", "CallStaticMethodA",
                              "CallNonvirtualMethodA", "NewObjectA",
                              "GetField", "SetField", "GetStaticField",
                              "SetStaticField" }
                            \cup IF member.form = "Class::Class"
                                   THEN { "NewGlobalRef" } ELSE { }
         /\ ~null => raised # "NameResolutionException"

\* C19 witness: a call by name has ended with NameResolutionException after
\* GetMethodID returned null; the message is the method's name, without the
\* descriptor that came with it.
C19_Witness ==
    /\ cpc = "done"
    /\ raised = "NameResolutionException"
    /\ member.fn = "GetMethodID"
    /\ member.given = << "m", "(", ")", "V" >>
    /\ member.message = << "m" >>
    /\ \E i \in DOMAIN trace : trace[i] = B("GetMethodID", "null")

(***************************************************************************)
(* Claims about the null Object, checked under SpecObj.                    *)
(***************************************************************************)

\* C20: right after its default construction an Object holds no handle, no
\* class reference and isNull() returns true; operator== with it returns
\* true for every other Object that is null and false for every Object
\* that wraps a live reference to a managed object.
C20_DefaultIsNull ==
    [][ \A d \in Objs :
          Construct(d)
          => /\ objs'[d].handle = NULL
             /\ objs'[d].cls = NULL
             /\ refs' = refs
             /\ IsNull(refs', objs'[d].handle) = { TRUE }
             /\ \A o \in Objs \ { d } :
                   LET same == IsSameObject(refs', objs'[d].handle, objs'[o].handle)
                              \cup IsSameObject(refs', objs'[o].handle, objs'[d].handle)
                   IN /\ (objs'[o].alive /\ IsNull(refs', objs'[o].handle) = { TRUE })
                         => same = { TRUE }
                      /\ (objs'[o].alive /\ Live(refs', objs'[o].handle))
                         => same = { FALSE }
      ]_vars

\* C20 witness: an Object has just been default-constructed next to an
\* Object that wraps a live global reference.
C20_Witness ==
    /\ last = "ctor"
    /\ \E d, o \in Objs :
          /\ d # o
          /\ objs[d] = Object_default
          /\ NonNull(o) /\ objs[o].isGlobal
          /\ IsSameObject(refs, objs[d].handle, objs[o].handle) = { FALSE }

(***************************************************************************)
(* Claims about signature synthesis, checked under SpecSig.                *)
(***************************************************************************)

\* The signature the claim gives for each type.
C21_Code(type) ==
    CASE type = "void"      -> "V"
      [] type = "bool"      -> "Z"
      [] type = "wchar_t"   -> "C"
      [] type = "short"     -> "S"
      [] type = "int"       -> "I"
      [] type = "long long" -> "J"
      [] type = "float"     -> "F"
      [] type = "double"    -> "D"
      [] type \in { "Object", "Object*" } -> "Ljava/lang/Object;"
      [] OTHER              -> "Ljava/lang/String;"

\* C21: the descriptor synthesized for arguments, none of them a non-null
\* Object, is "(", then the signature of each argument in the order of the
\* arguments, then ")" and the signature of the return type, each signature
\* as the claim lists it; arguments (std::string, int) with return type int
\* give "(Ljava/lang/String;I)I".
C21_Descriptor ==
    (descriptor # << >> /\ \A i \in DOMAIN sigArgs : sigArgs[i] # "Object a.B")
    => /\ Len(descriptor) = Len(sigArgs) + 3
       /\ descriptor[1] = "("
       /\ \A i \in DOMAIN sigArgs : descriptor[i + 1] = C21_Code(sigArgs[i])
       /\ descriptor[Len(sigArgs) + 2] = ")"
       /\ descriptor[Len(sigArgs) + 3] = C21_Code(sigRet)
       /\ (sigArgs = << "std::string", "int" >> /\ sigRet = "int")
          => descriptor = << "(", "Ljava/lang/String;", "I", ")", "I" >>

\* C21 witness: the descriptor of the claim's example has been synthesized.
C21_Witness ==
    /\ sigArgs = << "std::string", "int" >>
    /\ sigRet = "int"
    /\ descriptor = << "(", "Ljava/lang/String;", "I", ")", "I" >>

(***************************************************************************)
(* Claims about the string conversions, checked under SpecStr.             *)
(***************************************************************************)

\* C22: a wide string of code points converted with toJString and back with
\* toWString is the string it was.
C22_RoundTrip ==
    cvt = "done" => back = wstr

(***************************************************************************)
(* Claims about assignment from a null Object, checked under SpecObj.      *)
(***************************************************************************)

\* C23: after the copy assignment o = s, where s holds no handle and o owned
\* a live global reference, o holds no handle, isNull() of o is true, and o
\* does not hold a handle that is no longer a reference.
C23_NullAssignClears ==
    [][ \A o, s \in Objs :
          ( /\ o # s
            /\ objs[s].alive /\ objs[s].handle = NULL
            /\ NonNull(o) /\ objs[o].isGlobal
            /\ CopyAssign(o, s) )
          => /\ objs'[o].handle = NULL
             /\ IsNull(refs', objs'[o].handle) = { TRUE }
             /\ ~objs'[o].isGlobal ]_vars

(***************************************************************************)
(* Claims about local references, checked under SpecCall.                  *)
(***************************************************************************)

\* The positions of trace at which JNIEnv function fn is called.
Calls(fn) == { i \in DOMAIN trace : trace[i].fn = fn }

\* C24: when an operation has ended, normally or by an exception, every
\* local reference it obtained itself has been deleted: each exception
\* object ExceptionOccurred returned, each class GetObjectClass or FindClass
\* returned, and the object or string the JVM returned as the result.
C24_LocalRefsBalanced ==
    cpc = "done" =>
      /\ Cardinality(At(B("DeleteLocalRef", "exception")))
           = Cardinality(At(Detection))
      /\ Cardinality(At(B("DeleteLocalRef", "class")))
           = Cardinality(Calls("GetObjectClass"))
               + Cardinality(At(B("FindClass", "class")))
      /\ (raised = "" /\ result = "ref" /\ cop.kind # "findClass")
         => At(B("DeleteLocalRef", "result")) # { }


\* C25: when init(env) has returned normally on a thread, the process-wide VM
\* handle is captured (so env() on that thread cannot throw "JNI not
\* initialized"), whatever the other threads are executing.
C25_InitReturnedCaptured ==
    \A t \in Threads :
        (pc[t] = "ret" /\ res[t].op = "init" /\ res[t].err = "ok")
            => javaVm # NULL


\* C26: when init(env) throws because GetJavaVM failed, it leaves the process
\* uninitialised: the live flag is false and the VM handle is null.
C26_FailedInitUninitialised ==
    [][ \A t \in Threads :
          ( pc[t] = "acquire" /\ pc'[t] = "ret" /\ res'[t].err = ErrAcquire )
              => ( isVm' = FALSE /\ javaVm' = NULL ) ]_vars


(***************************************************************************)
(* Object lifetimes on the threads of a process whose VM handle may not be *)
(* registered yet.                                                         *)
(***************************************************************************)

\* Object::~Object() noexcept on thread t, lines 262-271, with the env() it
\* calls first (line 264, lines 134-142).  An exception of env() leaves a
\* noexcept function: std::terminate ends the process.
DestroyOn(t, o, attachOk) ==
    /\ pc[t] = "idle"
    /\ objs[o].alive
    /\ LET r == IF env_env[t] = NULL
                  THEN ScopedEnv_init(ScopedEnvOf(t), javaVm, t, jvmAttached[t], attachOk)
                  ELSE [ e |-> ScopedEnvOf(t), err |-> "ok", calls |-> << >> ]
           attachedNow == r.err = "ok" /\ Len(r.calls) = 2
           h  == IF objs[o].isGlobal THEN objs[o].handle ELSE NULL
           T1 == DeleteGlobalRef(refs, h)
           T2 == DeleteGlobalRef(T1, objs[o].cls)
           released == Released(refs, o, h) \o Released(T1, o, objs[o].cls)
       IN /\ env_vm' = [env_vm EXCEPT ![t] = r.e.vm]
          /\ env_env' = [env_env EXCEPT ![t] = r.e.env]
          /\ env_attached' = [env_attached EXCEPT ![t] = r.e.attached]
          /\ jvmAttached' = [jvmAttached EXCEPT ![t] = @ \/ attachedNow]
          /\ selfAttached' = [selfAttached EXCEPT ![t] = @ \/ attachedNow]
          /\ IF r.err # "ok"
               THEN /\ pc' = [u \in Threads |-> "terminated"]
                    /\ res' = [res EXCEPT ![t] = Result("~Object", r.err, FALSE, FALSE, r.calls)]
                    /\ UNCHANGED << objs, refs, rel, last >>
               ELSE /\ pc' = [pc EXCEPT ![t] = "ret"]
                    /\ res' = [res EXCEPT ![t] = Result("~Object", "ok", FALSE, FALSE,
                                  r.calls \o [i \in 1 .. Len(released) |-> "DeleteGlobalRef"])]
                    /\ refs' = [ x \in Handles |->
                                   IF T2[x].owner = o THEN [T2[x] EXCEPT !.owner = 0] ELSE T2[x] ]
                    /\ rel' = released
                    /\ objs' = [objs EXCEPT ![o] = Dead]
                    /\ last' = "dtor"
    /\ UNCHANGED << isVm, javaVm, path, lib, hostVm, vmCreated, openLibs,
                    vmObjs, everDestroyed >>
    /\ UNCHANGED << callVars, pureVars, cacheVars >>

NextLife ==
    \/ \E o \in Objs : Construct(o)
    \/ \E o, src \in Objs : MoveConstruct(o, src)
    \/ \E t \in Threads, o \in Objs, attachOk \in BOOLEAN : DestroyOn(t, o, attachOk)
    \/ \E t \in Threads : InitGuard(t)
    \/ \E t \in Threads, acquired \in BOOLEAN : InitAcquire(t, acquired)
    \/ \E t \in Threads, attachOk \in BOOLEAN : Env(t, attachOk)
    \/ \E t \in Threads : Return(t)

SpecLife == InitVm /\ [][NextLife]_vars

\* C27: destroying an Object that owns no references (default-constructed or
\* moved-from: null handle, no class cache, not global) calls no JavaVM or
\* JNIEnv function and cannot fail, also on a thread of a process without a
\* registered VM.
C27_NullObjectLifetime ==
    \A t \in Threads :
        res[t].op = "~Object" => ( res[t].err = "ok" /\ res[t].calls = << >> )


MaxGetClass == 2

\* A test that never finds the cache filled.
Unresolved_always(c) == TRUE

\* Line 548: _class == NULL.
Unresolved(c) == c = NULL

\* The state after jni::Vm vm; env() on every thread and the construction
\* of the shared Object: every thread holds its JNIEnv, the class cache is
\* empty.
InitCache ==
    /\ isVm = TRUE
    /\ javaVm = THE_VM
    /\ pc = [t \in Threads |-> "idle"]
    /\ path = [t \in Threads |-> "none"]
    /\ lib = [t \in Threads |-> NULL]
    /\ res = [t \in Threads |-> NoResult]
    /\ env_vm = [t \in Threads |-> THE_VM]
    /\ env_env = [t \in Threads |-> t]
    /\ env_attached = [t \in Threads |-> t # 1]
    /\ hostVm = FALSE
    /\ vmCreated = 1
    /\ jvmAttached = [t \in Threads |-> TRUE]
    /\ openLibs = 1
    /\ vmObjs = 1
    /\ everDestroyed = FALSE
    /\ selfAttached = [t \in Threads |-> t # 1]
    /\ objs = NoObjects.objs
    /\ refs = NoObjects.refs
    /\ rel = << >>
    /\ last = NoOp
    /\ cpc = "idle"
    /\ cop = NoCall
    /\ pending = FALSE
    /\ nest = 0
    /\ trace = << >>
    /\ raised = ""
    /\ thrown = FALSE
    /\ prev = "none"
    /\ member = NoMember
    /\ result = "null"
    /\ sigArgs = << >>
    /\ sigRet = "void"
    /\ descriptor = << >>
    /\ wstr = << >>
    /\ jstr = << >>
    /\ back = << >>
    /\ cvt = "none"
    /\ gpc = [t \in Threads |-> "idle"]
    /\ classRef = [t \in Threads |-> NULL]
    /\ returned = [t \in Threads |-> NULL]
    /\ ncalls = [t \in Threads |-> 0]
    /\ cache = NULL
    /\ shared = TRUE
    /\ made = 0
    /\ globals = { }
    /\ overlapped = FALSE

\* Line 548 on thread t: the test of the cache.  returned[t] keeps the value
\* the thread read.
GetClassTest(t) ==
    /\ gpc[t] = "idle"
    /\ shared
    /\ ncalls[t] < MaxGetClass
    /\ ncalls' = [ncalls EXCEPT ![t] = @ + 1]
    /\ overlapped' = (overlapped \/ \E u \in Threads \ {t} : gpc[u] # "idle")
    /\ returned' = [returned EXCEPT ![t] = cache]
    /\ gpc' = [gpc EXCEPT ![t] = IF Unresolved(cache) THEN "lookup" ELSE "return"]
    /\ UNCHANGED << classRef, cache, shared, made, globals >>
    /\ UNCHANGED << vmVars, objVars, callVars, pureVars >>

\* Line 552: jclass classRef = env->GetObjectClass(_handle).  The local
\* reference of thread t is t.
GetObjectClass(t) ==
    /\ gpc[t] = "lookup"
    /\ classRef' = [classRef EXCEPT ![t] = t]
    /\ gpc' = [gpc EXCEPT ![t] = "promote"]
    /\ UNCHANGED << returned, ncalls, cache, shared, made, globals, overlapped >>
    /\ UNCHANGED << vmVars, objVars, callVars, pureVars >>

\* Line 553: _class = jclass(env->NewGlobalRef(classRef)).  What _class held
\* is overwritten, not deleted.
PromoteClass(t) ==
    /\ gpc[t] = "promote"
    /\ made' = made + 1
    /\ globals' = globals \cup { made + 1 }
    /\ cache' = made + 1
    /\ returned' = [returned EXCEPT ![t] = made + 1]
    /\ gpc' = [gpc EXCEPT ![t] = "delete"]
    /\ UNCHANGED << classRef, ncalls, shared, overlapped >>
    /\ UNCHANGED << vmVars, objVars, callVars, pureVars >>

\* Line 554: env->DeleteLocalRef(classRef).
DeleteClassRef(t) ==
    /\ gpc[t] = "delete"
    /\ classRef' = [classRef EXCEPT ![t] = NULL]
    /\ gpc' = [gpc EXCEPT ![t] = "return"]
    /\ UNCHANGED << returned, ncalls, cache, shared, made, globals, overlapped >>
    /\ UNCHANGED << vmVars, objVars, callVars, pureVars >>

\* Line 557: return _class.
GetClassReturn(t) ==
    /\ gpc[t] = "return"
    /\ \E v \in { returned[t], cache } : returned' = [returned EXCEPT ![t] = v]
    /\ gpc' = [gpc EXCEPT ![t] = "idle"]
    /\ UNCHANGED << classRef, ncalls, cache, shared, made, globals, overlapped >>
    /\ UNCHANGED << vmVars, objVars, callVars, pureVars >>

\* Object::~Object() of the shared Object, lines 269-270, when no thread
\* uses it: the class reference the cache holds is deleted.
DestroyShared ==
    /\ shared
    /\ \A t \in Threads : gpc[t] = "idle"
    /\ shared' = FALSE
    /\ globals' = globals \ { cache }
    /\ UNCHANGED << gpc, classRef, returned, ncalls, cache, made, overlapped >>
    /\ UNCHANGED << vmVars, objVars, callVars, pureVars >>

NextCache ==
    \/ \E t \in Threads : GetClassTest(t)
    \/ \E t \in Threads : GetObjectClass(t)
    \/ \E t \in Threads : PromoteClass(t)
    \/ \E t \in Threads : DeleteClassRef(t)
    \/ \E t \in Threads : GetClassReturn(t)
    \/ DestroyShared

SpecCache == InitCache /\ [][NextCache]_vars

\* C29: while the getClass() calls on the shared Object are serialised, one
\* global class reference is created and every call returns it; whatever
\* the interleaving, the Object releases the one reference its cache holds,
\* so every further reference that was created stays unreleased.
C29_ClassCache ==
    /\ ~overlapped =>
          /\ made <= 1
          /\ \A t \in Threads :
                (gpc[t] = "idle" /\ ncalls[t] > 0)
                    => (made = 1 /\ returned[t] = 1 /\ cache = 1)
    /\ ~shared => Cardinality(globals) = (IF made = 0 THEN 0 ELSE made - 1)

\* Two threads ran getClass() at the same time on the unresolved cache: two
\* global class references were created, the Object held one of them, and
\* after its destruction the other is still there.
C29_Witness ==
    /\ overlapped /\ made = 2 /\ ~shared
    /\ Cardinality(globals) = 1


\* C30: Class::call<R>(const Object* obj, name) without arguments terminates
\* and does what Class::call<R>(*obj, name) does: one GetMethodID lookup with
\* the descriptor "()" + valueSig(R), then the non-virtual invocation.
C30_PointerFormDelegates ==
    (member.form = "Class::call(Object*)" /\ cop.args = << >>) =>
      /\ cpc # "recursing"
      /\ member.fn = "GetMethodID"
      /\ member.signature = Class_call_obj(member.given, cop.ret, << >>).signature
      /\ (cpc = "done" /\ raised # "NameResolutionException")
            => At(B("CallNonvirtualMethodA", cop.ret)) # { }

=============================================================================
